---- MODULE Spec2Model ----
(***************************************************************************)
(* The tunnel client of barkerja/burrow: the connection supervisor         *)
(* (TunnelClient::run, connect_and_run_once), the tasks it spawns per      *)
(* connection (writer, command handler, receiver/dispatcher) and the       *)
(* per-flow tasks of the dispatcher (HTTP requests, TCP and WebSocket      *)
(* flows), modelled from src/client/src/client/connection.rs,              *)
(* ws_proxy.rs and http_proxy.rs.                                          *)
(*                                                                         *)
(* Tokio semantics the model relies on: a task started with tokio::spawn   *)
(* keeps running when its JoinHandle is dropped; mpsc::Sender::send waits  *)
(* for capacity and fails only once the Receiver is dropped; try_recv      *)
(* never waits.                                                            *)
(***************************************************************************)
EXTENDS Integers, Sequences, FiniteSets, TLC

\* ------------------------------------------------------------ constants
MAX_RECONNECT_ATTEMPTS == 10
INITIAL_BACKOFF_MS == 1000
MAX_BACKOFF_MS == 60000
\* BACKOFF_MULTIPLIER = 1.5, kept as the exact fraction 3/2
BACKOFF_MULTIPLIER_NUM == 3
BACKOFF_MULTIPLIER_DEN == 2
\* mpsc::channel::<String>(256), the writer's text queue
MSG_CHANNEL_CAP == 256
\* mpsc::channel::<TunnelConfig>(16)
TUNNEL_CONFIG_CAP == 16
\* mpsc::channel(64), UI commands
CMD_CHANNEL_CAP == 64
\* connection.rs: find_tunnel_port(..).unwrap_or(3000)
FALLBACK_PORT == 3000
\* mpsc::channel(64): the per-flow channels of TCP and WebSocket flows
FLOW_CHANNEL_CAP == 64

\* ---------------------------------------------------------------- bounds
\* commands the UI submits in one run
MaxCmds == 2
\* HTTP requests the server sends on one connection
MaxRequests == 2
\* data frames the server sends into flows, and chunks the local origins send
MaxInbound == 3
MaxOutbound == 3
\* data frames the server sends beyond the capacity of one per-flow channel
MaxBlocked == 1
\* connections made in a run with reconnects
MaxConns == 2
\* longest body put through encode_body and decode_body
MaxBodyLen == 3
\* text frames in a run that do not parse
MaxUnparsed == 2
\* heartbeat ticks and server pings in a run
MaxTicks == 2
MaxPings == 2

\* ------------------------------------------------------------ vocabulary
Conns == 1..MAX_RECONNECT_ATTEMPTS

\* TuiCommand values the UI submits
Commands ==
  { [cmd |-> "AddHttpTunnel", local_port |-> 8080, subdomain |-> "foo"],
    [cmd |-> "AddTcpTunnel", local_port |-> 7777, subdomain |-> ""] }

NoCmd == [cmd |-> "none", local_port |-> 0, subdomain |-> ""]

\* TunnelConfig::Http { local_port, subdomain } / TunnelConfig::Tcp { local_port }
ConfigOf(cmd) ==
  IF cmd.cmd = "AddHttpTunnel"
    THEN [kind |-> "Http", local_port |-> cmd.local_port, subdomain |-> cmd.subdomain]
    ELSE [kind |-> "Tcp", local_port |-> cmd.local_port, subdomain |-> ""]

\* OutgoingMessage::register_tunnel(token, local_host, local_port, subdomain): the
\* token and the local host are the same in every frame and are left out
register_tunnel(local_port, subdomain) ==
  [type |-> "register_tunnel", local_port |-> local_port, subdomain |-> subdomain]

\* OutgoingMessage::register_tcp_tunnel(local_port)
register_tcp_tunnel(local_port) ==
  [type |-> "register_tcp_tunnel", local_port |-> local_port, subdomain |-> ""]

\* the frame built for a TunnelConfig (the `match config` of the re-register loop, and
\* the same two calls in the command handler)
RegisterFrame(config) ==
  IF config.kind = "Http"
    THEN register_tunnel(config.local_port, config.subdomain)
    ELSE register_tcp_tunnel(config.local_port)

\* a plain reason string, and format!("Failed after {} attempts: {}", attempt, reason)
Reason(text) == [prefix |-> "", n |-> 0, text |-> text]
FailedAfter(n, text) == [prefix |-> "Failed after", n |-> n, text |-> text]

\* ConnectionStatus events
StatusConnecting == [kind |-> "Connecting", attempt |-> 0, reason |-> Reason(""), next_retry_secs |-> 0]
StatusConnected == [kind |-> "Connected", attempt |-> 0, reason |-> Reason(""), next_retry_secs |-> 0]
StatusReconnecting(a, r, s) == [kind |-> "Reconnecting", attempt |-> a, reason |-> Reason(r), next_retry_secs |-> s]
StatusDisconnected(r) == [kind |-> "Disconnected", attempt |-> 0, reason |-> r, next_retry_secs |-> 0]
StatusNone == [kind |-> "none", attempt |-> 0, reason |-> Reason(""), next_retry_secs |-> 0]

VARIABLES
  \* TunnelClient::run
  attempt, backoff_ms, last_error, sup_pc, result, select_result,
  \* the last ConnectionStatus event sent to the UI
  status,
  \* TunnelClient fields
  self_cmd_rx, registered_tunnels,
  \* connect_and_run_once locals
  local_cmd_rx, rereg_idx, dialed,
  \* UI command channel (create_command_channel)
  cmd_chan, cmd_rx_alive, ui_submitted,
  \* per connection (indexed by the attempt that dialled it)
  msg_enq, msg_taken, msg_rx_open,
  cfg_chan, cfg_rx_open,
  pending_tunnels, pending_tcp_tunnels, tunnels, tunnels_registered,
  tcp_tunnels, tcp_tunnels_registered,
  reader,
  \* command handler task
  h_pc, h_conn, h_cmd,
  \* history: delays slept, failures seen, commands the handler consumed
  sleep_count, last_sleep_ms, prev_sleep_ms, last_sleep_dialed, prev_backoff_ms,
  failures, consumed, consumed_at_begin,
  \* HTTP request tasks (handle_message, TunnelRequest)
  req,
  \* TCP flows (handle_message TcpConnect/TcpData/TcpClose, handle_tcp_connection)
  tcp,
  \* WebSocket flows (handle_message WsUpgrade/WsFrame/WsClose, WebSocketProxy)
  ws,
  \* the receiver task inside handle_message, and how many data frames the server
  \* sends into flows during the run
  disp, inbound_limit,
  \* frames dispatched so far that named a flow of another connection
  stale,
  \* text frames so far that handle_message could not parse
  unparsed,
  \* per connection: the messages the sink of the control connection has taken
  \* with the task that wrote each, and the raw-message channel ws_tx (all sent,
  \* how many taken, how many the task of the receiver has been pinged)
  sink, raw_enq, raw_taken,
  \* heartbeat task per connection and its interval ticks so far
  heartbeat, ticks,
  \* the transport frames (ping, pong, binary) the receiver task has read, per
  \* connection
  transport_in,
  \* per connection: the TunnelRegistered / TcpTunnelRegistered events its
  \* receiver task has sent to the UI
  tunnel_events,
  \* one body on its way through encode_body, decode_body and encode_body again
  roundtrip,
  \* one exchange of forward_http_request: the header lists it is given and builds
  fwd,
  \* two calls of WebSocketProxy::connect: the frame's path and headers, and the
  \* request each builds
  wsreq

httpVars == <<req>>
tcpVars == <<tcp>>
wsVars == <<ws>>
dispVars == <<disp, inbound_limit, stale, unparsed>>
wireVars == <<sink, raw_enq, raw_taken, heartbeat, ticks, transport_in>>
tuiVars == <<tunnel_events>>
bodyVars == <<roundtrip>>
hdrVars == <<fwd, wsreq>>
supVars == <<attempt, backoff_ms, last_error, sup_pc, result, select_result, status,
             self_cmd_rx, registered_tunnels, local_cmd_rx, rereg_idx, dialed>>
uiVars == <<cmd_chan, cmd_rx_alive, ui_submitted>>
connVars == <<msg_enq, msg_taken, msg_rx_open, cfg_chan, cfg_rx_open,
              pending_tunnels, pending_tcp_tunnels, tunnels, tunnels_registered,
              tcp_tunnels, tcp_tunnels_registered, reader>>
handlerVars == <<h_pc, h_conn, h_cmd>>
histVars == <<sleep_count, last_sleep_ms, prev_sleep_ms, last_sleep_dialed,
              prev_backoff_ms, failures, consumed, consumed_at_begin>>
\* the tasks the dispatcher spawns: HTTP requests, TCP flows, WebSocket flows
taskVars == <<httpVars, tcpVars, wsVars>>
vars == <<supVars, uiVars, connVars, handlerVars, histVars, taskVars, dispVars, wireVars, tuiVars, bodyVars, hdrVars>>

\* ------------------------------------------------------- spawned tasks
\* tcp ids and tcp tunnel ids the server names; tcp tunnel id k is the one the k-th
\* tcp_tunnel_registered of the connection carried
TcpIds == {"c1"}
WsIds == {"w1"}
TcpTunnelIds == 1..2

\* a tcp id the dispatcher has not seen: no task, no tcp_connections entry
TcpIdle ==
  [conn |-> 0, pc |-> "none", in_map |-> FALSE, local_q |-> <<>>, rd |-> "none",
   wr |-> "none", written |-> <<>>, dispatched |-> 0, read |-> 0,
   origin_open |-> FALSE, server_closed |-> FALSE, read_end |-> "none",
   tcp_tunnel_id |-> 0]

\* Option<Vec<u8>> and Option<String>: bytes are 0..255, a String is its UTF-8
\* bytes; other options likewise
None == [some |-> FALSE, s |-> <<>>]
Some(s) == [some |-> TRUE, s |-> s]

\* Option<u16> and Option<String> of a ws_close frame, and the
\* Option<CloseFrame> of a tungstenite Message::Close
NoCode == [some |-> FALSE, s |-> 0]
NoReason == [some |-> FALSE, s |-> ""]
NoCloseFrame == [some |-> FALSE, code |-> 0, reason |-> ""]
CloseFrame(code, reason) == [some |-> TRUE, code |-> code, reason |-> reason]

\* a ws id the dispatcher has not seen: no task, no ws_proxies entry
WsIdle ==
  [conn |-> 0, pc |-> "none", local_port |-> 0, in_map |-> FALSE, to_local |-> <<>>,
   wr |-> "none", written |-> <<>>, dispatched |-> 0, from_local |-> <<>>,
   rd |-> "none", read |-> 0, server_closed |-> FALSE,
   close_code |-> NoCode, close_reason |-> NoReason]

\* the receiver task between two frames, at read.next()
DispIdle == [pc |-> "idle", kind |-> "none", id |-> "", item |-> 0]

\* TuiEvent::TunnelRegistered(TunnelEvent{..}) and TuiEvent::TcpTunnelRegistered
TunnelEvent(local_port) == [event |-> "TunnelRegistered", local_port |-> local_port]
TcpTunnelEvent(local_port) == [event |-> "TcpTunnelRegistered", local_port |-> local_port]

\* no body under way
NoBody ==
  roundtrip = [pc |-> "idle", x |-> None, pair |-> [body |-> None, body_encoding |-> "none"],
               y |-> None, pair2 |-> [body |-> None, body_encoding |-> "none"]]

\* no HTTP exchange and no WebSocket dial under way
NoHeaders ==
  /\ fwd = [pc |-> "idle", headers |-> <<>>, header_map |-> <<>>,
            origin |-> <<>>, response_headers |-> <<>>]
  /\ wsreq = [i \in 1..2 |-> [pc |-> "idle", path |-> "/", headers |-> <<>>, request |-> <<>>]]

\* what the sink of a control connection takes: Message::Text(json) and
\* Message::Pong(data), each with the task that called write.send
Text(frame) == [by |-> "sender", msg |-> "text", frame |-> frame]
Pong(data) == [by |-> "sender", msg |-> "pong", frame |-> data]

\* a transport frame as the receiver task reads it: Message::Ping(data),
\* Message::Pong(data), Message::Binary(data)
Ping(data) == [kind |-> "ping", data |-> data]
TransportFrame(kind, data) == [kind |-> kind, data |-> data]

\* no request, no flow, the receiver task not inside handle_message
NoTasks ==
  /\ req = <<>>
  /\ tcp = [id \in TcpIds |-> TcpIdle]
  /\ ws = [id \in WsIds |-> WsIdle]
  /\ disp = DispIdle
  /\ stale = 0
  /\ unparsed = 0

\* -------------------------------------------------------------- Init
InitRun ==
  /\ attempt = 0
  /\ backoff_ms = INITIAL_BACKOFF_MS
  /\ last_error = ""
  /\ sup_pc = "loop"
  /\ result = "none"
  /\ select_result = "none"
  /\ status = StatusNone
  /\ self_cmd_rx = TRUE
  /\ registered_tunnels = <<>>
  /\ local_cmd_rx = FALSE
  /\ rereg_idx = 1
  /\ dialed = FALSE
  /\ cmd_chan = <<>>
  /\ cmd_rx_alive = TRUE
  /\ ui_submitted = 0
  /\ msg_enq = [c \in Conns |-> <<>>]
  /\ msg_taken = [c \in Conns |-> 0]
  /\ msg_rx_open = [c \in Conns |-> FALSE]
  /\ cfg_chan = [c \in Conns |-> <<>>]
  /\ cfg_rx_open = [c \in Conns |-> FALSE]
  /\ pending_tunnels = [c \in Conns |-> <<>>]
  /\ pending_tcp_tunnels = [c \in Conns |-> <<>>]
  /\ tunnels = [c \in Conns |-> <<>>]
  /\ tunnels_registered = [c \in Conns |-> 0]
  /\ tcp_tunnels = [c \in Conns |-> <<>>]
  /\ tcp_tunnels_registered = [c \in Conns |-> 0]
  /\ reader = [c \in Conns |-> "none"]
  /\ h_pc = "none"
  /\ h_conn = 0
  /\ h_cmd = NoCmd
  /\ sleep_count = 0
  /\ last_sleep_ms = 0
  /\ prev_sleep_ms = 0
  /\ last_sleep_dialed = FALSE
  /\ prev_backoff_ms = INITIAL_BACKOFF_MS
  /\ failures = 0
  /\ consumed = <<>>
  /\ consumed_at_begin = 0
  /\ NoTasks
  /\ inbound_limit = MaxInbound
  /\ sink = [c \in Conns |-> <<>>]
  /\ raw_enq = [c \in Conns |-> <<>>]
  /\ raw_taken = [c \in Conns |-> 0]
  /\ heartbeat = [c \in Conns |-> "none"]
  /\ ticks = 0
  /\ transport_in = [c \in Conns |-> <<>>]
  /\ tunnel_events = [c \in Conns |-> <<>>]

Init == InitRun /\ NoBody /\ NoHeaders

\* ------------------------------------------------------------ channels
Min(a, b) == IF a <= b THEN a ELSE b

\* frames waiting in the writer's text queue of connection c
MsgQueue(c) == SubSeq(msg_enq[c], msg_taken[c] + 1, Len(msg_enq[c]))

\* msg_tx.send(json).await completes: at once with Err when the writer has dropped
\* msg_rx, with Ok as soon as the queue has room
MsgSendReady(c) == ~msg_rx_open[c] \/ Len(MsgQueue(c)) < MSG_CHANNEL_CAP

\* the queue's history after msg_tx.send(frame): the frame is queued unless the
\* Receiver is gone
MsgSend(c, frame) ==
  [msg_enq EXCEPT ![c] = IF msg_rx_open[c] THEN Append(@, frame) ELSE @]

\* tunnel_config_tx.send(config).await, likewise
CfgSendReady(c) == ~cfg_rx_open[c] \/ Len(cfg_chan[c]) < TUNNEL_CONFIG_CAP
CfgSend(c, config) ==
  [cfg_chan EXCEPT ![c] = IF cfg_rx_open[c] THEN Append(@, config) ELSE @]

\* NextBackoff with the multiplier taken as 2
NextBackoffDoubling(b) == Min(b * 2, MAX_BACKOFF_MS)

\* ----------------------------------------------------------- backoff
\* backoff_ms = ((backoff_ms as f64) * BACKOFF_MULTIPLIER) as u64; then .min(MAX_BACKOFF_MS)
NextBackoff(b) ==
  Min((b * BACKOFF_MULTIPLIER_NUM) \div BACKOFF_MULTIPLIER_DEN, MAX_BACKOFF_MS)

\* OnErr giving up one attempt late (attempt > MAX_RECONNECT_ATTEMPTS)
OnErrLate(text) ==
  /\ last_error' = text
  /\ failures' = failures + 1
  /\ IF attempt > MAX_RECONNECT_ATTEMPTS
       THEN /\ status' = StatusDisconnected(FailedAfter(attempt, text))
            /\ result' = "err"
            /\ sup_pc' = "done"
       ELSE /\ status' = StatusReconnecting(attempt, text, backoff_ms \div 1000)
            /\ result' = result
            /\ sup_pc' = "sleep"

\* OnOk without the break: the loop goes round again
OnOkRetry ==
  /\ status' = StatusDisconnected(Reason("Connection closed"))
  /\ result' = "ok"
  /\ sup_pc' = "loop"
  /\ UNCHANGED <<last_error, failures>>

\* -------------------------------------------------- TunnelClient::run
\* the Err(e) arm of run: record the error, give up at the cap, else announce the retry
OnErr(text) ==
  /\ last_error' = text
  /\ failures' = failures + 1
  /\ IF attempt >= MAX_RECONNECT_ATTEMPTS
       THEN /\ status' = StatusDisconnected(FailedAfter(attempt, text))
            /\ result' = "err"
            /\ sup_pc' = "done"
       ELSE /\ status' = StatusReconnecting(attempt, text, backoff_ms \div 1000)
            /\ result' = result
            /\ sup_pc' = "sleep"

\* the Ok(()) arm of run
OnOk ==
  /\ status' = StatusDisconnected(Reason("Connection closed"))
  /\ result' = "ok"
  /\ sup_pc' = "done"
  /\ UNCHANGED <<last_error, failures>>

\* BeginAttempt with the Connecting event at every attempt
BeginAttemptConnecting ==
  /\ sup_pc = "loop"
  /\ attempt' = attempt + 1
  /\ status' = StatusConnecting
  /\ local_cmd_rx' = self_cmd_rx
  /\ self_cmd_rx' = FALSE
  /\ dialed' = FALSE
  /\ sup_pc' = "dial"
  /\ consumed_at_begin' = Len(consumed) - (IF h_pc = "track" THEN 1 ELSE 0)
  /\ last_sleep_dialed' = FALSE
  /\ UNCHANGED <<hdrVars, bodyVars, tuiVars, wireVars, dispVars, taskVars, backoff_ms, last_error, result, select_result, registered_tunnels,
                 rereg_idx, uiVars, connVars, handlerVars, sleep_count, last_sleep_ms,
                 prev_sleep_ms, prev_backoff_ms, failures, consumed>>

\* loop top: attempt += 1, the Connecting / Reconnecting event, and the first line of
\* connect_and_run_once, self.cmd_rx.take()
BeginAttempt ==
  /\ sup_pc = "loop"
  /\ attempt' = attempt + 1
  /\ status' = IF attempt' = 1 THEN StatusConnecting
               ELSE StatusReconnecting(attempt', last_error, 0)
  /\ local_cmd_rx' = self_cmd_rx
  /\ self_cmd_rx' = FALSE
  /\ dialed' = FALSE
  /\ sup_pc' = "dial"
  /\ consumed_at_begin' = Len(consumed) - (IF h_pc = "track" THEN 1 ELSE 0)
  /\ last_sleep_dialed' = FALSE
  /\ UNCHANGED <<hdrVars, bodyVars, tuiVars, wireVars, dispVars, taskVars, backoff_ms, last_error, result, select_result, registered_tunnels,
                 rereg_idx, uiVars, connVars, handlerVars, sleep_count, last_sleep_ms,
                 prev_sleep_ms, prev_backoff_ms, failures, consumed>>

\* connect_async fails: `?` returns, dropping the local cmd_rx if this call took it
DialFail ==
  /\ sup_pc = "dial"
  /\ local_cmd_rx' = FALSE
  /\ cmd_rx_alive' = IF local_cmd_rx THEN FALSE ELSE cmd_rx_alive
  /\ cmd_chan' = IF local_cmd_rx THEN <<>> ELSE cmd_chan
  /\ OnErr("Failed to connect to server")
  /\ UNCHANGED <<hdrVars, bodyVars, tuiVars, wireVars, dispVars, taskVars, attempt, backoff_ms, select_result, self_cmd_rx, registered_tunnels,
                 rereg_idx, dialed, ui_submitted, connVars, handlerVars,
                 sleep_count, last_sleep_ms, prev_sleep_ms, last_sleep_dialed,
                 prev_backoff_ms, consumed, consumed_at_begin>>

\* connect_async succeeds: Connected event, the channels, the writer task and a new
\* ClientState
DialOk ==
  /\ sup_pc = "dial"
  /\ status' = StatusConnected
  /\ dialed' = TRUE
  /\ msg_rx_open' = [msg_rx_open EXCEPT ![attempt] = TRUE]
  /\ cfg_rx_open' = [cfg_rx_open EXCEPT ![attempt] = TRUE]
  /\ rereg_idx' = 1
  /\ sup_pc' = "reregister"
  /\ UNCHANGED <<hdrVars, bodyVars, tuiVars, wireVars, dispVars, taskVars, attempt, backoff_ms, last_error, result, select_result, self_cmd_rx,
                 registered_tunnels, local_cmd_rx, uiVars, msg_enq, msg_taken, cfg_chan,
                 pending_tunnels, pending_tcp_tunnels, tunnels, tunnels_registered,
                 tcp_tunnels, tcp_tunnels_registered, reader, handlerVars, histVars>>

\* ReRegister without the push onto the pending lists
ReRegisterNoPending ==
  /\ sup_pc = "reregister"
  /\ rereg_idx <= Len(registered_tunnels)
  /\ MsgSendReady(attempt)
  /\ msg_enq' = MsgSend(attempt, RegisterFrame(registered_tunnels[rereg_idx]))
  /\ rereg_idx' = rereg_idx + 1
  /\ UNCHANGED <<hdrVars, bodyVars, tuiVars, wireVars, dispVars, taskVars, attempt, backoff_ms, last_error, sup_pc, result, select_result, status,
                 self_cmd_rx, registered_tunnels, local_cmd_rx, dialed, uiVars,
                 msg_taken, msg_rx_open, cfg_chan, cfg_rx_open, pending_tunnels,
                 pending_tcp_tunnels, tunnels, tunnels_registered, tcp_tunnels,
                 tcp_tunnels_registered, reader, handlerVars, histVars>>

\* one turn of `for config in &self.registered_tunnels`: push the pending entry, then
\* send the register frame (its result is ignored)
ReRegister ==
  /\ sup_pc = "reregister"
  /\ rereg_idx <= Len(registered_tunnels)
  /\ MsgSendReady(attempt)
  /\ LET config == registered_tunnels[rereg_idx] IN
       /\ pending_tunnels' =
            IF config.kind = "Http"
              THEN [pending_tunnels EXCEPT ![attempt] = Append(@, config.local_port)]
              ELSE pending_tunnels
       /\ pending_tcp_tunnels' =
            IF config.kind = "Tcp"
              THEN [pending_tcp_tunnels EXCEPT ![attempt] = Append(@, config.local_port)]
              ELSE pending_tcp_tunnels
       /\ msg_enq' = MsgSend(attempt, RegisterFrame(config))
  /\ rereg_idx' = rereg_idx + 1
  /\ UNCHANGED <<hdrVars, bodyVars, tuiVars, wireVars, dispVars, taskVars, attempt, backoff_ms, last_error, sup_pc, result, select_result, status,
                 self_cmd_rx, registered_tunnels, local_cmd_rx, dialed, uiVars,
                 msg_taken, msg_rx_open, cfg_chan, cfg_rx_open, tunnels,
                 tunnels_registered, tcp_tunnels, tcp_tunnels_registered, reader,
                 handlerVars, histVars>>

\* after the loop: spawn the command handler (only if this call took cmd_rx), the
\* receiver task, and drop the supervisor's senders
SpawnTasks ==
  /\ sup_pc = "reregister"
  /\ rereg_idx > Len(registered_tunnels)
  /\ IF local_cmd_rx
       THEN h_pc' = "recv" /\ h_conn' = attempt
       ELSE UNCHANGED <<h_pc, h_conn>>
  /\ local_cmd_rx' = FALSE
  /\ reader' = [reader EXCEPT ![attempt] = "running"]
  /\ heartbeat' = [heartbeat EXCEPT ![attempt] = "running"]
  /\ sup_pc' = "drain1"
  /\ UNCHANGED <<hdrVars, bodyVars, tuiVars, sink, raw_enq, raw_taken, ticks, transport_in, dispVars, taskVars, attempt, backoff_ms, last_error, result, select_result, status,
                 self_cmd_rx, registered_tunnels, rereg_idx, dialed, uiVars,
                 msg_enq, msg_taken, msg_rx_open, cfg_chan, cfg_rx_open,
                 pending_tunnels, pending_tcp_tunnels, tunnels, tunnels_registered,
                 tcp_tunnels, tcp_tunnels_registered, h_cmd, histVars>>

\* track_tunnel
track_tunnel(config) == Append(registered_tunnels, config)

\* `while let Ok(config) = tunnel_config_rx.try_recv()`: one config taken and tracked
TryRecvSome ==
  /\ sup_pc \in {"drain1", "drain2"}
  /\ cfg_chan[attempt] # <<>>
  /\ registered_tunnels' = track_tunnel(Head(cfg_chan[attempt]))
  /\ cfg_chan' = [cfg_chan EXCEPT ![attempt] = Tail(@)]
  /\ UNCHANGED <<hdrVars, bodyVars, tuiVars, wireVars, dispVars, taskVars, attempt, backoff_ms, last_error, sup_pc, result, select_result, status,
                 self_cmd_rx, local_cmd_rx, rereg_idx, dialed, uiVars,
                 msg_enq, msg_taken, msg_rx_open, cfg_rx_open,
                 pending_tunnels, pending_tcp_tunnels, tunnels, tunnels_registered,
                 tcp_tunnels, tcp_tunnels_registered, reader, handlerVars, histVars>>

\* the first drain finds the channel empty: on to the select
FirstDrainEmpty ==
  /\ sup_pc = "drain1"
  /\ cfg_chan[attempt] = <<>>
  /\ sup_pc' = "select"
  /\ UNCHANGED <<hdrVars, bodyVars, tuiVars, wireVars, dispVars, taskVars, attempt, backoff_ms, last_error, result, select_result, status,
                 self_cmd_rx, registered_tunnels, local_cmd_rx, rereg_idx, dialed,
                 uiVars, connVars, handlerVars, histVars>>

\* ---------------------------------------------------------------- C28
\* select! without the sender_handle arm
SelectLostNoSender ==
  /\ sup_pc = "select"
  /\ \/ reader[attempt] = "ended"
     \/ (h_conn = attempt /\ h_pc = "done")
  /\ select_result' = "lost"
  /\ sup_pc' = "drain2"
  /\ UNCHANGED <<hdrVars, bodyVars, tuiVars, wireVars, dispVars, taskVars, attempt, backoff_ms, last_error, result, status,
                 self_cmd_rx, registered_tunnels, local_cmd_rx, rereg_idx, dialed,
                 uiVars, connVars, handlerVars, histVars>>

\* select!: one of the writer, receiver or command handler tasks has ended
SelectLost ==
  /\ sup_pc = "select"
  /\ \/ ~msg_rx_open[attempt]
     \/ reader[attempt] = "ended"
     \/ (h_conn = attempt /\ h_pc = "done")
  /\ select_result' = "lost"
  /\ sup_pc' = "drain2"
  /\ UNCHANGED <<hdrVars, bodyVars, tuiVars, wireVars, dispVars, taskVars, attempt, backoff_ms, last_error, result, status,
                 self_cmd_rx, registered_tunnels, local_cmd_rx, rereg_idx, dialed,
                 uiVars, connVars, handlerVars, histVars>>

\* select!: tokio::signal::ctrl_c()
SelectCtrlC ==
  /\ sup_pc = "select"
  /\ select_result' = "ctrl_c"
  /\ sup_pc' = "drain2"
  /\ UNCHANGED <<hdrVars, bodyVars, tuiVars, wireVars, dispVars, taskVars, attempt, backoff_ms, last_error, result, status,
                 self_cmd_rx, registered_tunnels, local_cmd_rx, rereg_idx, dialed,
                 uiVars, connVars, handlerVars, histVars>>

\* a command handler that still runs keeps its connection's queue and ClientState alive
HandlerHolds(c) == h_conn = c /\ h_pc \notin {"none", "done"}

\* what connect_and_run_once leaves behind for connection c when it returns:
\* tunnel_config_rx is dropped and the tasks are detached. Of these only the writer
\* and the command handler are followed further, and only while the command handler
\* runs: the writer's queue and the pending lists it pushes to stay, the rest of the
\* connection's state is no longer looked at
Released(f, c, v) == IF HandlerHolds(c) THEN f ELSE [f EXCEPT ![c] = v]
Dropped(f, c, v) == [f EXCEPT ![c] = v]

\* the final drain finds the channel empty: connect_and_run_once returns its result
\* to run, which handles it
FinalDrainEmpty ==
  /\ sup_pc = "drain2"
  /\ cfg_chan[attempt] = <<>>
  /\ cfg_rx_open' = [cfg_rx_open EXCEPT ![attempt] = FALSE]
  /\ msg_enq' = Released(msg_enq, attempt, <<>>)
  /\ msg_taken' = Released(msg_taken, attempt, 0)
  /\ msg_rx_open' = Released(msg_rx_open, attempt, FALSE)
  /\ pending_tunnels' = Released(pending_tunnels, attempt, <<>>)
  /\ pending_tcp_tunnels' = Released(pending_tcp_tunnels, attempt, <<>>)
  /\ tunnels' = Dropped(tunnels, attempt, <<>>)
  /\ tunnels_registered' = Dropped(tunnels_registered, attempt, 0)
  /\ tcp_tunnels' = Dropped(tcp_tunnels, attempt, <<>>)
  /\ tcp_tunnels_registered' = Dropped(tcp_tunnels_registered, attempt, 0)
  /\ reader' = Dropped(reader, attempt, "none")
  /\ select_result' = "none"
  /\ sink' = Released(sink, attempt, <<>>)
  /\ tunnel_events' = Dropped(tunnel_events, attempt, <<>>)
  /\ heartbeat' = Released(heartbeat, attempt, "none")
  /\ IF select_result = "ctrl_c" THEN OnOk ELSE OnErr("Connection lost")
  /\ UNCHANGED <<hdrVars, bodyVars, raw_enq, raw_taken, ticks, transport_in, dispVars, taskVars, attempt, backoff_ms, self_cmd_rx, registered_tunnels, local_cmd_rx,
                 rereg_idx, dialed, uiVars, cfg_chan, handlerVars,
                 sleep_count, last_sleep_ms, prev_sleep_ms, last_sleep_dialed,
                 prev_backoff_ms, consumed, consumed_at_begin>>

\* tokio::time::sleep(backoff_ms) returns; the backoff grows
SleepDone ==
  /\ sup_pc = "sleep"
  /\ sleep_count' = sleep_count + 1
  /\ prev_sleep_ms' = last_sleep_ms
  /\ last_sleep_ms' = backoff_ms
  /\ last_sleep_dialed' = dialed
  /\ prev_backoff_ms' = backoff_ms
  /\ backoff_ms' = NextBackoff(backoff_ms)
  /\ sup_pc' = "loop"
  /\ UNCHANGED <<hdrVars, bodyVars, tuiVars, wireVars, dispVars, taskVars, attempt, last_error, result, select_result, status, self_cmd_rx,
                 registered_tunnels, local_cmd_rx, rereg_idx, dialed, uiVars,
                 connVars, handlerVars, failures, consumed, consumed_at_begin>>

\* ------------------------------------------------------------ the UI
\* App::form_submit: self.cmd_tx.send(cmd).await; an error once cmd_rx is dropped
Submit(cmd, limit) ==
  /\ ui_submitted < limit
  /\ ~cmd_rx_alive \/ Len(cmd_chan) < CMD_CHANNEL_CAP
  /\ ui_submitted' = IF cmd_rx_alive THEN ui_submitted + 1 ELSE ui_submitted
  /\ cmd_chan' = IF cmd_rx_alive THEN Append(cmd_chan, cmd) ELSE cmd_chan
  /\ UNCHANGED <<hdrVars, bodyVars, tuiVars, wireVars, dispVars, taskVars, cmd_rx_alive, supVars, connVars, handlerVars, histVars>>

FormSubmit(cmd) == Submit(cmd, MaxCmds)

\* ------------------------------------------------- command handler task
\* `while let Some(cmd) = cmd_rx.recv().await`
HandlerRecv ==
  /\ h_pc = "recv"
  /\ cmd_chan # <<>>
  /\ h_cmd' = Head(cmd_chan)
  /\ cmd_chan' = Tail(cmd_chan)
  /\ consumed' = Append(consumed, ConfigOf(Head(cmd_chan)))
  /\ h_pc' = "track"
  /\ UNCHANGED <<hdrVars, bodyVars, tuiVars, wireVars, dispVars, taskVars, cmd_rx_alive, ui_submitted, supVars, connVars, h_conn,
                 sleep_count, last_sleep_ms, prev_sleep_ms, last_sleep_dialed,
                 prev_backoff_ms, failures, consumed_at_begin>>

\* `let _ = tunnel_config_tx.send(TunnelConfig::..).await` (an Err is ignored), then
\* the push onto pending_tunnels / pending_tcp_tunnels under the write guard
HandlerTrack ==
  /\ h_pc = "track"
  /\ CfgSendReady(h_conn)
  /\ cfg_chan' = CfgSend(h_conn, ConfigOf(h_cmd))
  /\ pending_tunnels' =
       IF h_cmd.cmd = "AddHttpTunnel"
         THEN [pending_tunnels EXCEPT ![h_conn] = Append(@, h_cmd.local_port)]
         ELSE pending_tunnels
  /\ pending_tcp_tunnels' =
       IF h_cmd.cmd = "AddTcpTunnel"
         THEN [pending_tcp_tunnels EXCEPT ![h_conn] = Append(@, h_cmd.local_port)]
         ELSE pending_tcp_tunnels
  /\ h_pc' = "send"
  /\ UNCHANGED <<hdrVars, bodyVars, tuiVars, wireVars, dispVars, taskVars, supVars, uiVars, msg_enq, msg_taken, msg_rx_open, cfg_rx_open,
                 tunnels, tunnels_registered, tcp_tunnels, tcp_tunnels_registered,
                 reader, h_conn, h_cmd, histVars>>

\* `if msg_tx_cmd.send(json).await.is_err() { break; }`: the handler ends, and its
\* cmd_rx with it, once the writer is gone
HandlerSend ==
  /\ h_pc = "send"
  /\ MsgSendReady(h_conn)
  /\ msg_enq' = MsgSend(h_conn, RegisterFrame(ConfigOf(h_cmd)))
  /\ h_pc' = IF msg_rx_open[h_conn] THEN "recv" ELSE "done"
  /\ cmd_rx_alive' = msg_rx_open[h_conn]
  /\ cmd_chan' = IF msg_rx_open[h_conn] THEN cmd_chan ELSE <<>>
  /\ h_cmd' = NoCmd
  /\ UNCHANGED <<hdrVars, bodyVars, tuiVars, wireVars, dispVars, taskVars, supVars, ui_submitted, msg_taken, msg_rx_open, cfg_chan, cfg_rx_open,
                 pending_tunnels, pending_tcp_tunnels, tunnels, tunnels_registered,
                 tcp_tunnels, tcp_tunnels_registered, reader, h_conn, histVars>>

\* ---------------------------------------------------------- writer task
\* a connection whose tasks the model follows
Followed(c) == (c = attempt /\ sup_pc \in {"reregister", "drain1", "select", "drain2"})
               \/ HandlerHolds(c)

\* ---------------------------------------------------------------- C29
\* `Some(text) = msg_rx.recv()` handing over the newest frame of the queue
WriterWriteNewest(c) ==
  /\ Followed(c)
  /\ msg_rx_open[c]
  /\ msg_taken[c] < Len(msg_enq[c])
  /\ msg_taken' = [msg_taken EXCEPT ![c] = @ + 1]
  /\ sink' = [sink EXCEPT ![c] = Append(@, Text(msg_enq[c][Len(msg_enq[c])]))]
  /\ UNCHANGED <<hdrVars, bodyVars, tuiVars, raw_enq, raw_taken, heartbeat, ticks, transport_in, dispVars, taskVars, supVars, uiVars, msg_enq, msg_rx_open, cfg_chan, cfg_rx_open,
                 pending_tunnels, pending_tcp_tunnels, tunnels, tunnels_registered,
                 tcp_tunnels, tcp_tunnels_registered, reader, handlerVars, histVars>>

\* `Some(text) = msg_rx.recv()` and write.send(Message::Text(text)) succeeds
WriterWrite(c) ==
  /\ Followed(c)
  /\ msg_rx_open[c]
  /\ msg_taken[c] < Len(msg_enq[c])
  /\ msg_taken' = [msg_taken EXCEPT ![c] = @ + 1]
  /\ sink' = [sink EXCEPT ![c] = Append(@, Text(msg_enq[c][msg_taken[c] + 1]))]
  /\ UNCHANGED <<hdrVars, bodyVars, tuiVars, raw_enq, raw_taken, heartbeat, ticks, transport_in, dispVars, taskVars, supVars, uiVars, msg_enq, msg_rx_open, cfg_chan, cfg_rx_open,
                 pending_tunnels, pending_tcp_tunnels, tunnels, tunnels_registered,
                 tcp_tunnels, tcp_tunnels_registered, reader, handlerVars, histVars>>

\* write.send fails: the task breaks out of its loop and drops msg_rx
WriterFail(c) ==
  /\ Followed(c)
  /\ msg_rx_open[c]
  /\ msg_taken[c] < Len(msg_enq[c])
  /\ msg_taken' = [msg_taken EXCEPT ![c] = @ + 1]
  /\ msg_rx_open' = [msg_rx_open EXCEPT ![c] = FALSE]
  /\ UNCHANGED <<hdrVars, bodyVars, tuiVars, wireVars, dispVars, taskVars, supVars, uiVars, msg_enq, cfg_chan, cfg_rx_open,
                 pending_tunnels, pending_tcp_tunnels, tunnels, tunnels_registered,
                 tcp_tunnels, tcp_tunnels_registered, reader, handlerVars, histVars>>

\* the raw-message channel ws_tx: what waits in it, and whether a send completes
RAW_CHANNEL_CAP == 256
RawQueue(c) == SubSeq(raw_enq[c], raw_taken[c] + 1, Len(raw_enq[c]))
RawSendReady(c) == ~msg_rx_open[c] \/ Len(RawQueue(c)) < RAW_CHANNEL_CAP

\* `Some(msg) = ws_rx.recv()` and write.send(msg) succeeds
WriterWritePong(c) ==
  /\ Followed(c)
  /\ msg_rx_open[c]
  /\ raw_taken[c] < Len(raw_enq[c])
  /\ raw_taken' = [raw_taken EXCEPT ![c] = @ + 1]
  /\ sink' = [sink EXCEPT ![c] = Append(@, Pong(raw_enq[c][raw_taken[c] + 1]))]
  /\ UNCHANGED <<hdrVars, bodyVars, tuiVars, raw_enq, heartbeat, ticks, transport_in, msg_enq, msg_taken, msg_rx_open>>
  /\ UNCHANGED <<dispVars, taskVars, supVars, uiVars, cfg_chan, cfg_rx_open,
                 pending_tunnels, pending_tcp_tunnels, tunnels, tunnels_registered,
                 tcp_tunnels, tcp_tunnels_registered, reader, handlerVars, histVars>>

\* write.send(msg) fails in the ws_rx arm: the task breaks and drops both receivers
WriterFailPong(c) ==
  /\ Followed(c)
  /\ msg_rx_open[c]
  /\ raw_taken[c] < Len(raw_enq[c])
  /\ raw_taken' = [raw_taken EXCEPT ![c] = @ + 1]
  /\ msg_rx_open' = [msg_rx_open EXCEPT ![c] = FALSE]
  /\ UNCHANGED <<hdrVars, bodyVars, tuiVars, sink, raw_enq, heartbeat, ticks, transport_in, msg_enq, msg_taken>>
  /\ UNCHANGED <<dispVars, taskVars, supVars, uiVars, cfg_chan, cfg_rx_open,
                 pending_tunnels, pending_tcp_tunnels, tunnels, tunnels_registered,
                 tcp_tunnels, tcp_tunnels_registered, reader, handlerVars, histVars>>

\* OutgoingMessage::Heartbeat as the heartbeat task builds it
heartbeat_frame == [type |-> "heartbeat"]

\* heartbeat task: interval.tick() returns and the heartbeat goes to msg_tx; a
\* failed send ends the task
Heartbeat(c) ==
  /\ Followed(c)
  /\ heartbeat[c] = "running"
  /\ ticks < MaxTicks
  /\ MsgSendReady(c)
  /\ ticks' = ticks + 1
  /\ msg_enq' = MsgSend(c, heartbeat_frame)
  /\ heartbeat' = [heartbeat EXCEPT ![c] = IF msg_rx_open[c] THEN @ ELSE "ended"]
  /\ UNCHANGED <<hdrVars, transport_in, bodyVars, tuiVars, sink, raw_enq, raw_taken, msg_taken, msg_rx_open>>
  /\ UNCHANGED <<dispVars, taskVars, supVars, uiVars, cfg_chan, cfg_rx_open,
                 pending_tunnels, pending_tcp_tunnels, tunnels, tunnels_registered,
                 tcp_tunnels, tcp_tunnels_registered, reader, handlerVars, histVars>>

\* HandlePing with the pong written to the sink by the receiver task itself
HandlePingDirect(c) ==
  /\ Followed(c)
  /\ reader[c] = "running"
  /\ disp.pc = "idle"
  /\ Len(raw_enq[c]) < MaxPings
  /\ sink' = [sink EXCEPT ![c] = Append(@, [Pong(Len(raw_enq[c]) + 1) EXCEPT !.by = "receiver"])]
  /\ UNCHANGED <<hdrVars, bodyVars, tuiVars, raw_enq, raw_taken, heartbeat, ticks, transport_in, msg_enq, msg_taken, msg_rx_open>>
  /\ UNCHANGED <<dispVars, taskVars, supVars, uiVars, cfg_chan, cfg_rx_open,
                 pending_tunnels, pending_tcp_tunnels, tunnels, tunnels_registered,
                 tcp_tunnels, tcp_tunnels_registered, reader, handlerVars, histVars>>

\* ------------------------------------------------ transport frames
\* receiver task, Message::Ping(data), answering with an empty pong
HandlePingEmptyPong(c) ==
  /\ Followed(c)
  /\ reader[c] = "running"
  /\ disp.pc = "idle"
  /\ Len(transport_in[c]) < MaxPings
  /\ RawSendReady(c)
  /\ transport_in' = [transport_in EXCEPT ![c] = Append(@, Ping(Len(@) + 1))]
  /\ raw_enq' = [raw_enq EXCEPT ![c] = IF msg_rx_open[c] THEN Append(@, 0) ELSE @]
  /\ UNCHANGED <<hdrVars, bodyVars, tuiVars, sink, raw_taken, heartbeat, ticks, msg_enq, msg_taken, msg_rx_open>>
  /\ UNCHANGED <<dispVars, taskVars, supVars, uiVars, cfg_chan, cfg_rx_open,
                 pending_tunnels, pending_tcp_tunnels, tunnels, tunnels_registered,
                 tcp_tunnels, tcp_tunnels_registered, reader, handlerVars, histVars>>

\* receiver task, Message::Ping(data): Message::Pong(data) goes to ws_tx_for_pong,
\* the result of the send is ignored
HandlePing(c) ==
  /\ Followed(c)
  /\ reader[c] = "running"
  /\ disp.pc = "idle"
  /\ Len(transport_in[c]) < MaxPings
  /\ RawSendReady(c)
  /\ transport_in' = [transport_in EXCEPT ![c] = Append(@, Ping(Len(@) + 1))]
  /\ raw_enq' = [raw_enq EXCEPT ![c] = IF msg_rx_open[c]
                                         THEN Append(@, Len(transport_in[c]) + 1) ELSE @]
  /\ UNCHANGED <<hdrVars, bodyVars, tuiVars, sink, raw_taken, heartbeat, ticks, msg_enq, msg_taken, msg_rx_open>>
  /\ UNCHANGED <<dispVars, taskVars, supVars, uiVars, cfg_chan, cfg_rx_open,
                 pending_tunnels, pending_tcp_tunnels, tunnels, tunnels_registered,
                 tcp_tunnels, tcp_tunnels_registered, reader, handlerVars, histVars>>

\* -------------------------------------------------------- receiver task
\* the fields serde requires for each IncomingMessage tag (those without
\* #[serde(default)])
RequiredFields ==
  [t \in {"tunnel_registered", "tunnel_request", "ws_upgrade", "ws_frame", "ws_close",
          "tcp_tunnel_registered", "tcp_connect", "tcp_data", "tcp_close",
          "heartbeat", "error"} |->
     CASE t = "tunnel_registered" -> {"tunnel_id", "subdomain", "full_url"}
       [] t = "tunnel_request" -> {"request_id", "tunnel_id", "method", "path",
                                   "query_string", "headers"}
       [] t = "ws_upgrade" -> {"ws_id", "tunnel_id", "path", "headers"}
       [] t = "ws_frame" -> {"ws_id", "opcode", "data"}
       [] t = "ws_close" -> {"ws_id"}
       [] t = "tcp_tunnel_registered" -> {"tcp_tunnel_id", "server_port", "local_port"}
       [] t = "tcp_connect" -> {"tcp_id", "tcp_tunnel_id"}
       [] t = "tcp_data" -> {"tcp_id", "data"}
       [] t = "tcp_close" -> {"tcp_id"}
       [] t = "heartbeat" -> {"timestamp"}
       [] t = "error" -> {"code", "message"}]

\* text frames a server may send: a well-formed tunnel_request, one with a field
\* the client does not know, and three that do not parse
GoodRequest ==
  [json |-> TRUE, type |-> "tunnel_request",
   fields |-> {"request_id", "tunnel_id", "method", "path", "query_string", "headers"}]
InboundTexts ==
  { GoodRequest,
    [GoodRequest EXCEPT !.fields = @ \cup {"trace_id"}],
    [GoodRequest EXCEPT !.fields = @ \ {"request_id"}],
    [GoodRequest EXCEPT !.type = "tunnel_paused"],
    [GoodRequest EXCEPT !.json = FALSE] }

\* IncomingMessage::from_json: the tag of the message, or "Err" for text that is
\* not JSON, carries an unknown tag or lacks a required field; unknown fields
\* are ignored
from_json(text) ==
  IF ~text.json THEN "Err"
  ELSE IF text.type \notin DOMAIN RequiredFields THEN "Err"
  ELSE IF ~(RequiredFields[text.type] \subseteq text.fields) THEN "Err"
  ELSE text.type

\* HandleUnparsed with the error leaving the receiver loop
HandleUnparsedBreak(c, text) ==
  /\ Followed(c)
  /\ reader[c] = "running"
  /\ disp.pc = "idle"
  /\ unparsed < MaxUnparsed
  /\ from_json(text) = "Err"
  /\ unparsed' = unparsed + 1
  /\ reader' = [reader EXCEPT ![c] = "ended"]
  /\ UNCHANGED <<hdrVars, bodyVars, tuiVars, wireVars, disp, inbound_limit, stale, taskVars, supVars, uiVars,
                 msg_enq, msg_taken, msg_rx_open, cfg_chan, cfg_rx_open,
                 pending_tunnels, pending_tcp_tunnels, tunnels, tunnels_registered,
                 tcp_tunnels, tcp_tunnels_registered, handlerVars, histVars>>

\* receiver task, Message::Text whose handle_message returns the parse error: the
\* error is logged and the loop goes on to the next message
HandleUnparsed(c, text) ==
  /\ Followed(c)
  /\ reader[c] = "running"
  /\ disp.pc = "idle"
  /\ unparsed < MaxUnparsed
  /\ from_json(text) = "Err"
  /\ unparsed' = unparsed + 1
  /\ UNCHANGED <<hdrVars, bodyVars, tuiVars, wireVars, disp, inbound_limit, stale, taskVars, supVars, uiVars,
                 connVars, handlerVars, histVars>>

\* frames of the given type among the first n the writer has put on the wire
Written(c, type) ==
  Len(SelectSeq(SubSeq(msg_enq[c], 1, msg_taken[c]), LAMBDA f : f.type = type))

\* PendingPort taking the newest pending entry
PendingPortLast(c) ==
  IF pending_tunnels[c] # <<>>
    THEN pending_tunnels[c][Len(pending_tunnels[c])]
    ELSE 0

\* pending_tunnels.get(*tunnels_registered), else port 0
PendingPort(c) ==
  IF tunnels_registered[c] + 1 <= Len(pending_tunnels[c])
    THEN pending_tunnels[c][tunnels_registered[c] + 1]
    ELSE 0

\* handle_message, IncomingMessage::TunnelRegistered: the server answers a
\* register_tunnel it has read; the k-th answer carries the k-th tunnel id
HandleTunnelRegistered(c) ==
  /\ Followed(c)
  /\ reader[c] = "running"
  /\ disp.pc = "idle"
  /\ tunnels_registered[c] < Written(c, "register_tunnel")
  /\ tunnel_events' = [tunnel_events EXCEPT ![c] = Append(@, TunnelEvent(PendingPort(c)))]
  /\ tunnels' = [tunnels EXCEPT ![c] = Append(@, PendingPort(c))]
  /\ tunnels_registered' = [tunnels_registered EXCEPT ![c] = @ + 1]
  /\ UNCHANGED <<hdrVars, bodyVars, wireVars, dispVars, taskVars, supVars, uiVars, msg_enq, msg_taken, msg_rx_open, cfg_chan, cfg_rx_open,
                 pending_tunnels, pending_tcp_tunnels, tcp_tunnels,
                 tcp_tunnels_registered, reader, handlerVars, histVars>>

\* handle_message, IncomingMessage::TcpTunnelRegistered: the frame itself names the
\* local port
HandleTcpTunnelRegistered(c) ==
  /\ Followed(c)
  /\ reader[c] = "running"
  /\ disp.pc = "idle"
  /\ tcp_tunnels_registered[c] < Written(c, "register_tcp_tunnel")
  /\ LET sent == SelectSeq(SubSeq(msg_enq[c], 1, msg_taken[c]),
                           LAMBDA f : f.type = "register_tcp_tunnel") IN
       /\ tunnel_events' = [tunnel_events EXCEPT
                              ![c] = Append(@, TcpTunnelEvent(sent[tcp_tunnels_registered[c] + 1].local_port))]
       /\ tcp_tunnels' = [tcp_tunnels EXCEPT
                            ![c] = Append(@, sent[tcp_tunnels_registered[c] + 1].local_port)]
  /\ tcp_tunnels_registered' = [tcp_tunnels_registered EXCEPT ![c] = @ + 1]
  /\ UNCHANGED <<hdrVars, bodyVars, wireVars, dispVars, taskVars, supVars, uiVars, msg_enq, msg_taken, msg_rx_open, cfg_chan, cfg_rx_open,
                 pending_tunnels, pending_tcp_tunnels, tunnels, tunnels_registered,
                 reader, handlerVars, histVars>>

\* Message::Close or a read error: the receiver loop breaks
ReceiverEnd(c) ==
  /\ Followed(c)
  /\ reader[c] = "running"
  /\ disp.pc = "idle"
  /\ reader' = [reader EXCEPT ![c] = "ended"]
  /\ UNCHANGED <<hdrVars, bodyVars, tuiVars, wireVars, dispVars, taskVars, supVars, uiVars, msg_enq, msg_taken, msg_rx_open, cfg_chan, cfg_rx_open,
                 pending_tunnels, pending_tcp_tunnels, tunnels, tunnels_registered,
                 tcp_tunnels, tcp_tunnels_registered, handlerVars, histVars>>

\* ------------------------------------------------------- specification
Next ==
  \/ BeginAttempt
  \/ DialFail
  \/ DialOk
  \/ ReRegister
  \/ SpawnTasks
  \/ TryRecvSome
  \/ FirstDrainEmpty
  \/ SelectLost
  \/ SelectCtrlC
  \/ FinalDrainEmpty
  \/ SleepDone
  \/ \E cmd \in Commands : FormSubmit(cmd)
  \/ HandlerRecv
  \/ HandlerTrack
  \/ HandlerSend
  \/ \E c \in Conns : WriterWrite(c)
  \/ \E c \in Conns : WriterFail(c)
  \/ \E c \in Conns : HandleTunnelRegistered(c)
  \/ \E c \in Conns : HandleTcpTunnelRegistered(c)
  \/ \E c \in Conns : ReceiverEnd(c)

Spec == Init /\ [][Next]_vars

TypeOK ==
  /\ attempt \in 0..MAX_RECONNECT_ATTEMPTS
  /\ sup_pc \in {"loop", "dial", "reregister", "drain1", "select", "drain2", "sleep", "done"}
  /\ h_pc \in {"none", "recv", "track", "send", "done"}

\* ==================================================== established connection
\* The first attempt has connected (DialOk, SpawnTasks, FirstDrainEmpty), the UI has
\* added an HTTP tunnel and then a TCP tunnel, the handler has tracked both and sent
\* their register frames, the writer has written them and the server's
\* tunnel_registered and tcp_tunnel_registered have been dispatched.
HttpCommand == [cmd |-> "AddHttpTunnel", local_port |-> 8080, subdomain |-> "foo"]
TcpCommand == [cmd |-> "AddTcpTunnel", local_port |-> 7777, subdomain |-> ""]
EstablishedConfigs == <<ConfigOf(HttpCommand), ConfigOf(TcpCommand)>>

EstablishedQueue ==
  [c \in Conns |-> IF c = 1 THEN <<RegisterFrame(EstablishedConfigs[1]),
                                   RegisterFrame(EstablishedConfigs[2])>>
                           ELSE <<>>]

\* the established connection but for what waits on its writer queue
EstablishedBut ==
  /\ attempt = 1
  /\ backoff_ms = INITIAL_BACKOFF_MS
  /\ last_error = ""
  /\ sup_pc = "select"
  /\ result = "none"
  /\ select_result = "none"
  /\ status = StatusConnected
  /\ self_cmd_rx = FALSE
  /\ registered_tunnels = <<>>
  /\ local_cmd_rx = FALSE
  /\ rereg_idx = 1
  /\ dialed = TRUE
  /\ cmd_chan = <<>>
  /\ cmd_rx_alive = TRUE
  /\ ui_submitted = 2
  /\ msg_taken = [c \in Conns |-> IF c = 1 THEN 2 ELSE 0]
  /\ msg_rx_open = [c \in Conns |-> c = 1]
  /\ cfg_chan = [c \in Conns |-> IF c = 1 THEN EstablishedConfigs ELSE <<>>]
  /\ cfg_rx_open = [c \in Conns |-> c = 1]
  /\ pending_tunnels = [c \in Conns |-> IF c = 1 THEN <<8080>> ELSE <<>>]
  /\ pending_tcp_tunnels = [c \in Conns |-> IF c = 1 THEN <<7777>> ELSE <<>>]
  /\ tunnels = [c \in Conns |-> IF c = 1 THEN <<8080>> ELSE <<>>]
  /\ tunnels_registered = [c \in Conns |-> IF c = 1 THEN 1 ELSE 0]
  /\ tcp_tunnels = [c \in Conns |-> IF c = 1 THEN <<7777>> ELSE <<>>]
  /\ tcp_tunnels_registered = [c \in Conns |-> IF c = 1 THEN 1 ELSE 0]
  /\ reader = [c \in Conns |-> IF c = 1 THEN "running" ELSE "none"]
  /\ h_pc = "recv"
  /\ h_conn = 1
  /\ h_cmd = NoCmd
  /\ sleep_count = 0
  /\ last_sleep_ms = 0
  /\ prev_sleep_ms = 0
  /\ last_sleep_dialed = FALSE
  /\ prev_backoff_ms = INITIAL_BACKOFF_MS
  /\ failures = 0
  /\ consumed = EstablishedConfigs
  /\ consumed_at_begin = 0
  /\ sink = [c \in Conns |-> IF c = 1 THEN <<Text(RegisterFrame(EstablishedConfigs[1])),
                                              Text(RegisterFrame(EstablishedConfigs[2]))>>
                                      ELSE <<>>]
  /\ raw_enq = [c \in Conns |-> <<>>]
  /\ raw_taken = [c \in Conns |-> 0]
  /\ heartbeat = [c \in Conns |-> IF c = 1 THEN "running" ELSE "none"]
  /\ ticks = 0
  /\ transport_in = [c \in Conns |-> <<>>]
  /\ tunnel_events = [c \in Conns |-> IF c = 1 THEN <<TunnelEvent(8080), TcpTunnelEvent(7777)>>
                                               ELSE <<>>]

Established == EstablishedBut /\ msg_enq = EstablishedQueue

\* the established connection before any request or flow
InitEstablished == Established /\ NoTasks /\ inbound_limit = MaxInbound /\ NoBody /\ NoHeaders

\* ============================================================ HTTP requests
\* request ids and tunnel ids the server names in tunnel_request frames; tunnel id k
\* is the one the k-th tunnel_registered of the connection carried
RequestIds == {"r1", "r2"}
TunnelIds == 1..2
\* what the local origin answers, and the errors forward_http_request returns
\* str::as_bytes for the strings the model names
as_bytes(str) ==
  CASE str = "" -> <<>>
    [] str = "ok" -> <<111, 107>>
    [] str = "Bad Gateway: " -> <<66, 97, 100, 32, 71, 97, 116, 101, 119, 97, 121, 58, 32>>
    [] str = "connection refused" -> <<99, 111, 110, 110, 101, 99, 116, 105, 111, 110, 32, 114, 101, 102, 117, 115, 101, 100>>
    [] str = "operation timed out" -> <<111, 112, 101, 114, 97, 116, 105, 111, 110, 32, 116, 105, 109, 101, 100, 32, 111, 117, 116>>
OriginResponses ==
  { [status |-> 200, headers |-> <<<<"content-type", "text/html">>>>,
     body |-> Some(as_bytes("ok"))],
    [status |-> 204, headers |-> <<>>, body |-> None] }
TransportErrors == {"connection refused", "operation timed out"}

NoFrame == [type |-> "none"]

\* the local host the client was constructed with
local_host == "localhost"

\* find_tunnel_port with unwrap_or_default in place of unwrap_or(3000)
find_tunnel_port_or_default(c, tunnel_id) ==
  IF tunnel_id \in 1..Len(tunnels[c]) THEN tunnels[c][tunnel_id] ELSE 0

\* s.find_tunnel_port(&tunnel_id).unwrap_or(3000)
find_tunnel_port(c, tunnel_id) ==
  IF tunnel_id \in 1..Len(tunnels[c]) THEN tunnels[c][tunnel_id] ELSE FALLBACK_PORT

\* String::from_utf8 succeeds on well-formed UTF-8 only: lead byte, continuation
\* bytes 0x80..0xBF, no overlong forms, no surrogates, nothing above U+10FFFF
IsCont(b) == b \in 128..191
RECURSIVE IsUtf8(_)
IsUtf8(data) ==
  IF data = <<>> THEN TRUE
  ELSE LET n == Len(data)
           b == data[1]
           Rest(k) == SubSeq(data, k + 1, n)
       IN CASE b \in 0..127 -> IsUtf8(Rest(1))
            [] b \in 194..223 -> n >= 2 /\ IsCont(data[2]) /\ IsUtf8(Rest(2))
            [] b = 224 -> n >= 3 /\ data[2] \in 160..191 /\ IsCont(data[3]) /\ IsUtf8(Rest(3))
            [] b \in (225..236) \cup (238..239) ->
                 n >= 3 /\ IsCont(data[2]) /\ IsCont(data[3]) /\ IsUtf8(Rest(3))
            [] b = 237 -> n >= 3 /\ data[2] \in 128..159 /\ IsCont(data[3]) /\ IsUtf8(Rest(3))
            [] b = 240 -> n >= 4 /\ data[2] \in 144..191 /\ IsCont(data[3])
                          /\ IsCont(data[4]) /\ IsUtf8(Rest(4))
            [] b \in 241..243 -> n >= 4 /\ IsCont(data[2]) /\ IsCont(data[3])
                                 /\ IsCont(data[4]) /\ IsUtf8(Rest(4))
            [] b = 244 -> n >= 4 /\ data[2] \in 128..143 /\ IsCont(data[3])
                          /\ IsCont(data[4]) /\ IsUtf8(Rest(4))
            [] OTHER -> FALSE

\* the STANDARD alphabet of base64 as ASCII codes: A-Z a-z 0-9 + / and the pad =
B64Char(v) ==
  CASE v \in 0..25 -> 65 + v
    [] v \in 26..51 -> 97 + (v - 26)
    [] v \in 52..61 -> 48 + (v - 52)
    [] v = 62 -> 43
    [] v = 63 -> 47
B64Index(ch) ==
  CASE ch \in 65..90 -> ch - 65
    [] ch \in 97..122 -> ch - 97 + 26
    [] ch \in 48..57 -> ch - 48 + 52
    [] ch = 43 -> 62
    [] ch = 47 -> 63
    [] OTHER -> -1
B64Pad == 61

\* base64_encode without the padding
RECURSIVE base64_encode_nopad(_)
base64_encode_nopad(data) ==
  IF data = <<>> THEN <<>>
  ELSE IF Len(data) = 1
    THEN <<B64Char(data[1] \div 4), B64Char((data[1] % 4) * 16)>>
  ELSE IF Len(data) = 2
    THEN <<B64Char(data[1] \div 4), B64Char((data[1] % 4) * 16 + data[2] \div 16),
           B64Char((data[2] % 16) * 4)>>
  ELSE <<B64Char(data[1] \div 4), B64Char((data[1] % 4) * 16 + data[2] \div 16),
         B64Char((data[2] % 16) * 4 + data[3] \div 64), B64Char(data[3] % 64)>>
       \o base64_encode_nopad(SubSeq(data, 4, Len(data)))

\* base64::Engine::encode(&STANDARD, data): three bytes to four characters, the
\* last group padded with =
RECURSIVE base64_encode(_)
base64_encode(data) ==
  IF data = <<>> THEN <<>>
  ELSE IF Len(data) = 1
    THEN <<B64Char(data[1] \div 4), B64Char((data[1] % 4) * 16), B64Pad, B64Pad>>
  ELSE IF Len(data) = 2
    THEN <<B64Char(data[1] \div 4), B64Char((data[1] % 4) * 16 + data[2] \div 16),
           B64Char((data[2] % 16) * 4), B64Pad>>
  ELSE <<B64Char(data[1] \div 4), B64Char((data[1] % 4) * 16 + data[2] \div 16),
         B64Char((data[2] % 16) * 4 + data[3] \div 64), B64Char(data[3] % 64)>>
       \o base64_encode(SubSeq(data, 4, Len(data)))

\* base64::Engine::decode(&STANDARD, s): canonical padding required, characters
\* outside the alphabet and non-zero trailing bits are errors
DecodeErr == [ok |-> FALSE, bytes |-> <<>>]
DecodeOk(bytes) == [ok |-> TRUE, bytes |-> bytes]
RECURSIVE base64_decode(_)
base64_decode(str) ==
  IF str = <<>> THEN DecodeOk(<<>>)
  ELSE IF Len(str) < 4 THEN DecodeErr
  ELSE LET rest == SubSeq(str, 5, Len(str))
           v == [i \in 1..4 |-> B64Index(str[i])]
           b1 == v[1] * 4 + v[2] \div 16
           b2 == (v[2] % 16) * 16 + v[3] \div 4
           b3 == (v[3] % 4) * 64 + v[4]
       IN IF v[1] < 0 \/ v[2] < 0 THEN DecodeErr
          ELSE IF str[3] = B64Pad
            THEN IF str[4] = B64Pad /\ rest = <<>> /\ v[2] % 16 = 0
                   THEN DecodeOk(<<b1>>) ELSE DecodeErr
          ELSE IF v[3] < 0 THEN DecodeErr
          ELSE IF str[4] = B64Pad
            THEN IF rest = <<>> /\ v[3] % 4 = 0 THEN DecodeOk(<<b1, b2>>) ELSE DecodeErr
          ELSE IF v[4] < 0 THEN DecodeErr
          ELSE LET r == base64_decode(rest)
               IN IF r.ok THEN DecodeOk(<<b1, b2, b3>> \o r.bytes) ELSE DecodeErr

\* encode_body: absent stays absent, empty and valid UTF-8 go verbatim without a
\* tag, anything else is base64 with the tag "base64"
encode_body(body) ==
  IF ~body.some THEN [body |-> None, body_encoding |-> "none"]
  ELSE IF body.s = <<>> THEN [body |-> Some(<<>>), body_encoding |-> "none"]
  ELSE IF IsUtf8(body.s) THEN [body |-> Some(body.s), body_encoding |-> "none"]
  ELSE [body |-> Some(base64_encode(body.s)), body_encoding |-> "base64"]

\* decode_body: absent stays absent, a "base64" tag decodes (a decode error gives
\* absent), any other tag or none gives the string's bytes
decode_body(body, encoding) ==
  IF ~body.some THEN None
  ELSE IF encoding = "base64"
    THEN LET r == base64_decode(body.s) IN IF r.ok THEN Some(r.bytes) ELSE None
  ELSE Some(body.s)

\* OutgoingMessage::tunnel_response
tunnel_response(request_id, http_status, headers, body) ==
  [type |-> "tunnel_response", request_id |-> request_id, status |-> http_status,
   headers |-> headers, body |-> encode_body(body).body,
   body_encoding |-> encode_body(body).body_encoding]

\* BadGateway without the "Bad Gateway: " prefix
BadGatewayBare(e) == Some(as_bytes(e))

\* format!("Bad Gateway: {}", e).into_bytes()
BadGateway(e) == Some(as_bytes("Bad Gateway: ") \o as_bytes(e))

\* handle_message, IncomingMessage::TunnelRequest: look the port up, spawn the task
HandleTunnelRequest(c, request_id, tunnel_id) ==
  /\ Followed(c)
  /\ reader[c] = "running"
  /\ disp.pc = "idle"
  /\ Len(req) < MaxRequests
  /\ req' = Append(req, [conn |-> c, request_id |-> request_id, tunnel_id |-> tunnel_id,
                         local_host |-> local_host,
                         local_port |-> find_tunnel_port(c, tunnel_id),
                         pc |-> "forward", response |-> "none", error |-> "",
                         msg |-> NoFrame])
  /\ UNCHANGED <<hdrVars, bodyVars, tuiVars, wireVars, dispVars, supVars, uiVars, connVars, handlerVars, histVars, tcpVars, wsVars>>

\* the spawned task: forward_http_request returned Ok((status, headers, body))
ForwardOk(t, r) ==
  /\ req[t].pc = "forward"
  /\ req' = [req EXCEPT ![t].pc = "send", ![t].response = "ok",
                        ![t].msg = tunnel_response(req[t].request_id, r.status,
                                                   r.headers, r.body)]
  /\ UNCHANGED <<hdrVars, bodyVars, tuiVars, wireVars, dispVars, supVars, uiVars, connVars, handlerVars, histVars, tcpVars, wsVars>>

\* the spawned task: forward_http_request returned Err(e)
ForwardErr(t, e) ==
  /\ req[t].pc = "forward"
  /\ req' = [req EXCEPT ![t].pc = "send", ![t].response = "err", ![t].error = e,
                        ![t].msg = tunnel_response(req[t].request_id, 502,
                                     <<<<"content-type", "text/plain">>>>, BadGateway(e))]
  /\ UNCHANGED <<hdrVars, bodyVars, tuiVars, wireVars, dispVars, supVars, uiVars, connVars, handlerVars, histVars, tcpVars, wsVars>>

\* ResponseSend with the frame sent twice
ResponseSendTwice(t) ==
  /\ req[t].pc = "send"
  /\ MsgSendReady(req[t].conn)
  /\ msg_enq' = [msg_enq EXCEPT ![req[t].conn] = @ \o <<req[t].msg, req[t].msg>>]
  /\ req' = [req EXCEPT ![t].pc = "done"]
  /\ UNCHANGED <<hdrVars, bodyVars, tuiVars, wireVars, dispVars, supVars, uiVars, msg_taken, msg_rx_open, cfg_chan, cfg_rx_open,
                 pending_tunnels, pending_tcp_tunnels, tunnels, tunnels_registered,
                 tcp_tunnels, tcp_tunnels_registered, reader, handlerVars, histVars,
                 tcpVars, wsVars>>

\* the spawned task: `let _ = msg_tx.send(json).await`, then the task ends
ResponseSend(t) ==
  /\ req[t].pc = "send"
  /\ MsgSendReady(req[t].conn)
  /\ msg_enq' = MsgSend(req[t].conn, req[t].msg)
  /\ req' = [req EXCEPT ![t].pc = "done"]
  /\ UNCHANGED <<hdrVars, bodyVars, tuiVars, wireVars, dispVars, supVars, uiVars, msg_taken, msg_rx_open, cfg_chan, cfg_rx_open,
                 pending_tunnels, pending_tcp_tunnels, tunnels, tunnels_registered,
                 tcp_tunnels, tcp_tunnels_registered, reader, handlerVars, histVars,
                 tcpVars, wsVars>>


NextHttp ==
  \/ \E id \in RequestIds, k \in TunnelIds : HandleTunnelRequest(attempt, id, k)
  \/ \E t \in 1..Len(req), r \in OriginResponses : ForwardOk(t, r)
  \/ \E t \in 1..Len(req), e \in TransportErrors : ForwardErr(t, e)
  \/ \E t \in 1..Len(req) : ResponseSend(t)
  \/ WriterWrite(attempt)
  \/ WriterFail(attempt)

SpecHttp == InitEstablished /\ [][NextHttp]_vars

\* ================================================================ TCP flows
DialErrors == {"connection refused"}
\* what read_half.read gives as Err(e)
ReadErrors == {"connection reset by peer"}

\* the k-th chunk sent into a flow is the number k; base64 is a tagged term
Base64(data) == [base64 |-> data]
Base64Decode(s) == s.base64

\* OutgoingMessage::tcp_connected, tcp_data, tcp_close
tcp_connected(tcp_id) == [type |-> "tcp_connected", tcp_id |-> tcp_id]
tcp_data(tcp_id, data) ==
  [type |-> "tcp_data", tcp_id |-> tcp_id, data |-> Base64(data), data_encoding |-> "base64"]
tcp_close(tcp_id, reason) == [type |-> "tcp_close", tcp_id |-> tcp_id, reason |-> reason]

RECURSIVE SumOf(_, _)
SumOf(f, S) == IF S = {} THEN 0
               ELSE LET x == CHOOSE y \in S : TRUE IN f[x] + SumOf(f, S \ {x})

\* data frames the server has sent into flows so far
InboundSent == SumOf([i \in TcpIds |-> tcp[i].dispatched], TcpIds)
                 + SumOf([i \in WsIds |-> ws[i].dispatched], WsIds)

\* the writer has put tcp_connected{tcp_id} on the wire: the server knows the flow
TcpConnectedSeen(c, id) ==
  \E i \in 1..msg_taken[c] : /\ msg_enq[c][i].type = "tcp_connected"
                             /\ msg_enq[c][i].tcp_id = id

\* handle_message, IncomingMessage::TcpConnect, with the lookup's result ignored
HandleTcpConnectAnyTunnel(c, id, k) ==
  /\ Followed(c)
  /\ reader[c] = "running"
  /\ disp.pc = "idle"
  /\ tcp[id].pc = "none"
  /\ tcp' = [tcp EXCEPT ![id].tcp_tunnel_id = k, ![id].conn = c, ![id].pc = "dial"]
  /\ UNCHANGED <<hdrVars, bodyVars, tuiVars, wireVars, dispVars, supVars, uiVars, connVars, handlerVars, histVars, httpVars, wsVars>>

\* handle_message, IncomingMessage::TcpConnect: find_tcp_tunnel, spawn the task
HandleTcpConnect(c, id, k) ==
  /\ Followed(c)
  /\ reader[c] = "running"
  /\ disp.pc = "idle"
  /\ tcp[id].pc = "none"
  /\ tcp' = IF k \in 1..Len(tcp_tunnels[c])
              THEN [tcp EXCEPT ![id].tcp_tunnel_id = k, ![id].conn = c, ![id].pc = "dial"]
              ELSE [tcp EXCEPT ![id].tcp_tunnel_id = k]
  /\ UNCHANGED <<hdrVars, bodyVars, tuiVars, wireVars, dispVars, supVars, uiVars, connVars, handlerVars, histVars, httpVars, wsVars>>

\* the task: TcpStream::connect returned Ok, tcp_connected is sent
TcpConnectOk(id) ==
  /\ tcp[id].pc = "dial"
  /\ MsgSendReady(tcp[id].conn)
  /\ msg_enq' = MsgSend(tcp[id].conn, tcp_connected(id))
  /\ tcp' = [tcp EXCEPT ![id].pc = "insert", ![id].origin_open = TRUE]
  /\ UNCHANGED <<hdrVars, bodyVars, tuiVars, wireVars, dispVars, supVars, uiVars, msg_taken, msg_rx_open, cfg_chan, cfg_rx_open,
                 pending_tunnels, pending_tcp_tunnels, tunnels, tunnels_registered,
                 tcp_tunnels, tcp_tunnels_registered, reader, handlerVars, histVars,
                 httpVars, wsVars>>

\* the task: TcpStream::connect returned Err(e), tcp_close is sent and the task ends
TcpConnectErr(id, e) ==
  /\ tcp[id].pc = "dial"
  /\ MsgSendReady(tcp[id].conn)
  /\ msg_enq' = MsgSend(tcp[id].conn,
                        tcp_close(id, [prefix |-> "Connection failed: ", e |-> e]))
  /\ tcp' = [tcp EXCEPT ![id].pc = "done"]
  /\ UNCHANGED <<hdrVars, bodyVars, tuiVars, wireVars, dispVars, supVars, uiVars, msg_taken, msg_rx_open, cfg_chan, cfg_rx_open,
                 pending_tunnels, pending_tcp_tunnels, tunnels, tunnels_registered,
                 tcp_tunnels, tcp_tunnels_registered, reader, handlerVars, histVars,
                 httpVars, wsVars>>

\* handle_tcp_connection up to its select: the channel is made, the flow is stored
\* in tcp_connections, read_task and write_task are spawned
TcpInsert(id) ==
  /\ disp.pc = "idle"
  /\ tcp[id].pc = "insert"
  /\ tcp' = [tcp EXCEPT ![id].pc = "select", ![id].in_map = TRUE,
                        ![id].rd = "running", ![id].wr = "running"]
  /\ UNCHANGED <<hdrVars, bodyVars, tuiVars, wireVars, dispVars, supVars, uiVars, connVars, handlerVars, histVars, httpVars, wsVars>>

\* TcpRead with the chunk sent as it is, without base64
TcpReadPlain(id) ==
  /\ tcp[id].rd = "running"
  /\ tcp[id].origin_open
  /\ SumOf([i \in TcpIds |-> tcp[i].read], TcpIds)
       + SumOf([i \in WsIds |-> ws[i].read], WsIds) < MaxOutbound
  /\ MsgSendReady(tcp[id].conn)
  /\ msg_enq' = MsgSend(tcp[id].conn,
                        [type |-> "tcp_data", tcp_id |-> id, data |-> tcp[id].read + 1,
                         data_encoding |-> "none"])
  /\ tcp' = [tcp EXCEPT ![id].read = @ + 1,
                        ![id].rd = IF msg_rx_open[tcp[id].conn] THEN @ ELSE "ended"]
  /\ UNCHANGED <<hdrVars, bodyVars, tuiVars, wireVars, dispVars, supVars, uiVars, msg_taken, msg_rx_open, cfg_chan, cfg_rx_open,
                 pending_tunnels, pending_tcp_tunnels, tunnels, tunnels_registered,
                 tcp_tunnels, tcp_tunnels_registered, reader, handlerVars, histVars,
                 httpVars, wsVars>>

\* read_task: read returned Ok(n), n > 0; tcp_data is sent, a failed send breaks
TcpRead(id) ==
  /\ tcp[id].rd = "running"
  /\ tcp[id].origin_open
  /\ SumOf([i \in TcpIds |-> tcp[i].read], TcpIds)
       + SumOf([i \in WsIds |-> ws[i].read], WsIds) < MaxOutbound
  /\ MsgSendReady(tcp[id].conn)
  /\ msg_enq' = MsgSend(tcp[id].conn, tcp_data(id, tcp[id].read + 1))
  /\ tcp' = [tcp EXCEPT ![id].read = @ + 1,
                        ![id].rd = IF msg_rx_open[tcp[id].conn] THEN @ ELSE "ended"]
  /\ UNCHANGED <<hdrVars, bodyVars, tuiVars, wireVars, dispVars, supVars, uiVars, msg_taken, msg_rx_open, cfg_chan, cfg_rx_open,
                 pending_tunnels, pending_tcp_tunnels, tunnels, tunnels_registered,
                 tcp_tunnels, tcp_tunnels_registered, reader, handlerVars, histVars,
                 httpVars, wsVars>>

\* read_task: read returned Ok(0); tcp_close "closed" is sent and the task ends
TcpReadEof(id) ==
  /\ tcp[id].rd = "running"
  /\ tcp[id].origin_open
  /\ MsgSendReady(tcp[id].conn)
  /\ msg_enq' = MsgSend(tcp[id].conn, tcp_close(id, "closed"))
  /\ tcp' = [tcp EXCEPT ![id].rd = "ended", ![id].origin_open = FALSE,
                        ![id].read_end = "eof"]
  /\ UNCHANGED <<hdrVars, bodyVars, tuiVars, wireVars, dispVars, supVars, uiVars, msg_taken, msg_rx_open, cfg_chan, cfg_rx_open,
                 pending_tunnels, pending_tcp_tunnels, tunnels, tunnels_registered,
                 tcp_tunnels, tcp_tunnels_registered, reader, handlerVars, histVars,
                 httpVars, wsVars>>

\* read_task: read returned Err(e); tcp_close with the error text is sent and the
\* task ends
TcpReadErr(id, e) ==
  /\ tcp[id].rd = "running"
  /\ tcp[id].origin_open
  /\ MsgSendReady(tcp[id].conn)
  /\ msg_enq' = MsgSend(tcp[id].conn, tcp_close(id, e))
  /\ tcp' = [tcp EXCEPT ![id].rd = "ended", ![id].origin_open = FALSE,
                        ![id].read_end = e]
  /\ UNCHANGED <<hdrVars, bodyVars, tuiVars, wireVars, dispVars, supVars, uiVars, msg_taken, msg_rx_open, cfg_chan, cfg_rx_open,
                 pending_tunnels, pending_tcp_tunnels, tunnels, tunnels_registered,
                 tcp_tunnels, tcp_tunnels_registered, reader, handlerVars, histVars,
                 httpVars, wsVars>>

\* write_task: local_rx.recv() gave a chunk and write_all wrote it
TcpWrite(id) ==
  /\ tcp[id].wr = "running"
  /\ tcp[id].local_q # <<>>
  /\ tcp' = [tcp EXCEPT ![id].written = Append(@, Head(tcp[id].local_q)),
                        ![id].local_q = Tail(@)]
  /\ UNCHANGED <<hdrVars, bodyVars, tuiVars, wireVars, dispVars, supVars, uiVars, connVars, handlerVars, histVars, httpVars, wsVars>>

\* write_task: local_rx.recv() gave None, the only Sender left tcp_connections
TcpWriteEnd(id) ==
  /\ tcp[id].wr = "running"
  /\ tcp[id].local_q = <<>>
  /\ ~tcp[id].in_map
  /\ tcp' = [tcp EXCEPT ![id].wr = "ended"]
  /\ UNCHANGED <<hdrVars, bodyVars, tuiVars, wireVars, dispVars, supVars, uiVars, connVars, handlerVars, histVars, httpVars, wsVars>>

\* handle_tcp_connection: the select saw one task finish, the flow is removed
TcpCleanup(id) ==
  /\ disp.pc = "idle"
  /\ tcp[id].pc = "select"
  /\ tcp[id].rd = "ended" \/ tcp[id].wr = "ended"
  /\ tcp' = [tcp EXCEPT ![id].pc = "done", ![id].in_map = FALSE]
  /\ UNCHANGED <<hdrVars, bodyVars, tuiVars, wireVars, dispVars, supVars, uiVars, connVars, handlerVars, histVars, httpVars, wsVars>>

\* the server names a flow it was told of: tcp_connected on this connection, or
\* a flow set up on an earlier connection
TcpKnown(c, id) ==
  \/ TcpConnectedSeen(c, id)
  \/ tcp[id].conn \in 1..(c - 1) /\ tcp[id].pc \in {"select", "done"}

\* TcpLookup in one map shared by all connections
TcpLookupAny(c, id) == tcp[id].in_map

\* s.tcp_connections.get(&tcp_id) in the ClientState of connection c: the flow's
\* task holds the state of the connection its tcp_connect came on
TcpLookup(c, id) == tcp[id].in_map /\ tcp[id].conn = c

\* conn.tx.send finds no room: the flow is in tcp_connections, its write loop
\* still owns the receiving end, and the channel holds FLOW_CHANNEL_CAP chunks
TcpFull(id) ==
  /\ tcp[id].in_map
  /\ tcp[id].wr = "running"
  /\ Len(tcp[id].local_q) >= FLOW_CHANNEL_CAP

\* HandleTcpData with the chunk put at the front of the flow's channel
HandleTcpDataFront(c, id) ==
  /\ Followed(c)
  /\ reader[c] = "running"
  /\ disp.pc = "idle"
  /\ TcpKnown(c, id)
  /\ ~tcp[id].server_closed
  /\ InboundSent < inbound_limit
  /\ ~(TcpLookup(c, id) /\ TcpFull(id))
  /\ tcp' = [tcp EXCEPT
               ![id].dispatched = @ + 1,
               ![id].local_q = IF TcpLookup(c, id) /\ tcp[id].wr = "running"
                                 THEN <<Base64Decode(Base64(tcp[id].dispatched + 1))>> \o @
                                 ELSE @]
  /\ UNCHANGED <<hdrVars, bodyVars, tuiVars, wireVars, dispVars, supVars, uiVars, connVars, handlerVars, histVars, httpVars, wsVars>>

\* handle_message, IncomingMessage::TcpData, sent by a server that has read
\* tcp_connected: a flow in tcp_connections gets the decoded chunk on its channel,
\* any other chunk is dropped with a warning; with no room in the channel the
\* receiver task stays inside conn.tx.send(decoded).await, read guard held
HandleTcpData(c, id) ==
  /\ Followed(c)
  /\ reader[c] = "running"
  /\ disp.pc = "idle"
  /\ TcpKnown(c, id)
  /\ ~tcp[id].server_closed
  /\ InboundSent < inbound_limit
  /\ IF TcpLookup(c, id) /\ TcpFull(id)
       THEN /\ tcp' = [tcp EXCEPT ![id].dispatched = @ + 1]
            /\ disp' = [pc |-> "send", kind |-> "tcp", id |-> id,
                        item |-> Base64Decode(Base64(tcp[id].dispatched + 1))]
       ELSE /\ tcp' = [tcp EXCEPT
                         ![id].dispatched = @ + 1,
                         ![id].local_q = IF TcpLookup(c, id) /\ tcp[id].wr = "running"
                                           THEN Append(@, Base64Decode(Base64(tcp[id].dispatched + 1)))
                                           ELSE @]
            /\ disp' = disp
  /\ stale' = stale + (IF tcp[id].conn = c THEN 0 ELSE 1)
  /\ UNCHANGED <<hdrVars, bodyVars, tuiVars, wireVars, inbound_limit, unparsed, supVars, uiVars, connVars, handlerVars, histVars, httpVars, wsVars>>

\* conn.tx.send(decoded).await returns: the write loop took a chunk and the
\* waiting one goes onto the channel, or the write loop ended and the send fails
TcpDataSent(id) ==
  /\ disp.pc = "send"
  /\ disp.kind = "tcp"
  /\ disp.id = id
  /\ ~TcpFull(id)
  /\ tcp' = [tcp EXCEPT
               ![id].local_q = IF tcp[id].wr = "running" THEN Append(@, disp.item) ELSE @]
  /\ disp' = DispIdle
  /\ UNCHANGED <<hdrVars, bodyVars, tuiVars, wireVars, inbound_limit, stale, unparsed, supVars, uiVars, connVars, handlerVars, histVars, httpVars, wsVars>>

\* handle_message, IncomingMessage::TcpClose: the entry leaves tcp_connections
HandleTcpClose(c, id) ==
  /\ Followed(c)
  /\ reader[c] = "running"
  /\ disp.pc = "idle"
  /\ TcpKnown(c, id)
  /\ ~tcp[id].server_closed
  /\ tcp' = [tcp EXCEPT ![id].in_map = @ /\ ~TcpLookup(c, id), ![id].server_closed = TRUE]
  /\ stale' = stale + (IF tcp[id].conn = c THEN 0 ELSE 1)
  /\ UNCHANGED <<hdrVars, bodyVars, tuiVars, wireVars, disp, inbound_limit, unparsed, supVars, uiVars, connVars, handlerVars, histVars, httpVars, wsVars>>

\* ========================================================== WebSocket flows
\* OutgoingMessage::WsUpgraded, WsFrame and WsClose as the client builds them
ws_upgraded(ws_id) == [type |-> "ws_upgraded", ws_id |-> ws_id, headers |-> <<>>]
ws_frame(ws_id, opcode, data) ==
  [type |-> "ws_frame", ws_id |-> ws_id, opcode |-> opcode, data |-> data,
   data_encoding |-> "none"]
ws_close(ws_id, code, reason) ==
  [type |-> "ws_close", ws_id |-> ws_id, code |-> code, reason |-> reason]

\* the writer has put ws_upgraded{ws_id} on the wire
WsUpgradedSeen(c, id) ==
  \E i \in 1..msg_taken[c] : /\ msg_enq[c][i].type = "ws_upgraded"
                             /\ msg_enq[c][i].ws_id = id

\* self.msg_tx.try_send(json): the frame is queued when the writer's queue is open
\* and has room, and is given up otherwise
MsgTrySend(c, frame) ==
  [msg_enq EXCEPT ![c] = IF msg_rx_open[c] /\ Len(MsgQueue(c)) < MSG_CHANNEL_CAP
                           THEN Append(@, frame) ELSE @]

\* handle_message, IncomingMessage::WsUpgrade: look the port up, spawn the task
HandleWsUpgrade(c, id, k) ==
  /\ Followed(c)
  /\ reader[c] = "running"
  /\ disp.pc = "idle"
  /\ ws[id].pc = "none"
  /\ ws' = [ws EXCEPT ![id].conn = c, ![id].pc = "connect",
                      ![id].local_port = find_tunnel_port(c, k)]
  /\ UNCHANGED <<hdrVars, bodyVars, tuiVars, wireVars, dispVars, supVars, uiVars, connVars, handlerVars, histVars, httpVars, tcpVars>>

\* the task: WebSocketProxy::connect returned Ok (both channels made, the to-local
\* writer and the from-local reader spawned), ws_upgraded is sent
WsConnectOk(id) ==
  /\ ws[id].pc = "connect"
  /\ MsgSendReady(ws[id].conn)
  /\ msg_enq' = MsgSend(ws[id].conn, ws_upgraded(id))
  /\ ws' = [ws EXCEPT ![id].pc = "insert", ![id].wr = "running", ![id].rd = "running"]
  /\ UNCHANGED <<hdrVars, bodyVars, tuiVars, wireVars, dispVars, supVars, uiVars, msg_taken, msg_rx_open, cfg_chan, cfg_rx_open,
                 pending_tunnels, pending_tcp_tunnels, tunnels, tunnels_registered,
                 tcp_tunnels, tcp_tunnels_registered, reader, handlerVars, histVars,
                 httpVars, tcpVars>>

\* WsConnectErr with the close code 1000
WsConnectErrNormal(id, e) ==
  /\ ws[id].pc = "connect"
  /\ MsgSendReady(ws[id].conn)
  /\ msg_enq' = MsgSend(ws[id].conn,
                        ws_close(id, 1000, [prefix |-> "Local connection failed: ", e |-> e]))
  /\ ws' = [ws EXCEPT ![id].pc = "done"]
  /\ UNCHANGED <<hdrVars, bodyVars, tuiVars, wireVars, dispVars, supVars, uiVars, msg_taken, msg_rx_open, cfg_chan, cfg_rx_open,
                 pending_tunnels, pending_tcp_tunnels, tunnels, tunnels_registered,
                 tcp_tunnels, tcp_tunnels_registered, reader, handlerVars, histVars,
                 httpVars, tcpVars>>

\* the task: WebSocketProxy::connect returned Err(e), ws_close 1011 is sent
WsConnectErr(id, e) ==
  /\ ws[id].pc = "connect"
  /\ MsgSendReady(ws[id].conn)
  /\ msg_enq' = MsgSend(ws[id].conn,
                        ws_close(id, 1011, [prefix |-> "Local connection failed: ", e |-> e]))
  /\ ws' = [ws EXCEPT ![id].pc = "done"]
  /\ UNCHANGED <<hdrVars, bodyVars, tuiVars, wireVars, dispVars, supVars, uiVars, msg_taken, msg_rx_open, cfg_chan, cfg_rx_open,
                 pending_tunnels, pending_tcp_tunnels, tunnels, tunnels_registered,
                 tcp_tunnels, tcp_tunnels_registered, reader, handlerVars, histVars,
                 httpVars, tcpVars>>

\* the task: the proxy is stored in ws_proxies, then proxy.run starts
WsInsert(id) ==
  /\ disp.pc = "idle"
  /\ ws[id].pc = "insert"
  /\ ws' = [ws EXCEPT ![id].pc = "run", ![id].in_map = TRUE]
  /\ UNCHANGED <<hdrVars, bodyVars, tuiVars, wireVars, dispVars, supVars, uiVars, connVars, handlerVars, histVars, httpVars, tcpVars>>

\* the proxy is alive while its task or ws_proxies holds it
WsProxyAlive(id) == ws[id].pc \in {"insert", "run", "cleanup"} \/ ws[id].in_map

\* from-local reader: the origin sent a text message, it goes on from_local
WsLocalRead(id) ==
  /\ ws[id].rd = "running"
  /\ SumOf([i \in TcpIds |-> tcp[i].read], TcpIds)
       + SumOf([i \in WsIds |-> ws[i].read], WsIds) < MaxOutbound
  /\ ~WsProxyAlive(id) \/ Len(ws[id].from_local) < FLOW_CHANNEL_CAP
  /\ ws' = [ws EXCEPT
              ![id].read = @ + 1,
              ![id].from_local = IF WsProxyAlive(id)
                                   THEN Append(@, [kind |-> "text", data |-> ws[id].read + 1,
                                                   close_frame |-> NoCloseFrame])
                                   ELSE @,
              ![id].rd = IF WsProxyAlive(id) THEN @ ELSE "ended"]
  /\ UNCHANGED <<hdrVars, bodyVars, tuiVars, wireVars, dispVars, supVars, uiVars, connVars, handlerVars, histVars, httpVars, tcpVars>>

\* the close frames a local origin sends: Close(None) or Close(Some(frame))
LocalCloseFrames == {NoCloseFrame, CloseFrame(1001, "bye")}

\* from-local reader: the origin sent Message::Close(frame), after which its stream
\* ends
WsLocalClose(id, frame) ==
  /\ ws[id].rd = "running"
  /\ ~WsProxyAlive(id) \/ Len(ws[id].from_local) < FLOW_CHANNEL_CAP
  /\ ws' = [ws EXCEPT
              ![id].from_local = IF WsProxyAlive(id)
                                   THEN Append(@, [kind |-> "close", data |-> 0,
                                                   close_frame |-> frame])
                                   ELSE @,
              ![id].rd = "ended"]
  /\ UNCHANGED <<hdrVars, bodyVars, tuiVars, wireVars, dispVars, supVars, uiVars, connVars, handlerVars, histVars, httpVars, tcpVars>>

\* from-local reader: read.next() gave None or Err(e) with no close message
WsReadEnd(id) ==
  /\ ws[id].rd = "running"
  /\ ws' = [ws EXCEPT ![id].rd = "ended"]
  /\ UNCHANGED <<hdrVars, bodyVars, tuiVars, wireVars, dispVars, supVars, uiVars, connVars, handlerVars, histVars, httpVars, tcpVars>>

\* frame.map(|f| (f.code.into(), f.reason.to_string())).unwrap_or((1000, String::new()))
close_code_reason(frame) ==
  IF frame.some THEN [code |-> frame.code, reason |-> frame.reason]
  ELSE [code |-> 1000, reason |-> ""]

\* WsRun with every close sent on as ws_close{1000, ""}
WsRunDefaultClose(id) ==
  /\ ws[id].pc = "run"
  /\ ws[id].from_local # <<>>
  /\ LET m == Head(ws[id].from_local) IN
       /\ msg_enq' = MsgTrySend(ws[id].conn,
                                IF m.kind = "close" THEN ws_close(id, 1000, "")
                                                    ELSE ws_frame(id, "text", m.data))
       /\ ws' = [ws EXCEPT ![id].from_local = Tail(@),
                           ![id].pc = IF m.kind = "close" THEN "cleanup" ELSE @]
  /\ UNCHANGED <<hdrVars, bodyVars, tuiVars, wireVars, dispVars, supVars, uiVars, msg_taken, msg_rx_open, cfg_chan, cfg_rx_open,
                 pending_tunnels, pending_tcp_tunnels, tunnels, tunnels_registered,
                 tcp_tunnels, tcp_tunnels_registered, reader, handlerVars, histVars,
                 httpVars, tcpVars>>

\* WebSocketProxy::run, one turn of the loop: a text message becomes a ws_frame, a
\* close becomes a ws_close with the frame's code and reason (1000 and "" without a
\* frame) and ends the loop; try_send gives the frame up when it cannot queue it
WsRun(id) ==
  /\ ws[id].pc = "run"
  /\ ws[id].from_local # <<>>
  /\ LET m == Head(ws[id].from_local) IN
       /\ msg_enq' = MsgTrySend(ws[id].conn,
                                IF m.kind = "close" THEN ws_close(id, close_code_reason(m.close_frame).code,
                                                             close_code_reason(m.close_frame).reason)
                                                    ELSE ws_frame(id, "text", m.data))
       /\ ws' = [ws EXCEPT ![id].from_local = Tail(@),
                           ![id].pc = IF m.kind = "close" THEN "cleanup" ELSE @]
  /\ UNCHANGED <<hdrVars, bodyVars, tuiVars, wireVars, dispVars, supVars, uiVars, msg_taken, msg_rx_open, cfg_chan, cfg_rx_open,
                 pending_tunnels, pending_tcp_tunnels, tunnels, tunnels_registered,
                 tcp_tunnels, tcp_tunnels_registered, reader, handlerVars, histVars,
                 httpVars, tcpVars>>

\* WebSocketProxy::run: rx.recv() gave None, the from-local reader has gone
WsRunEnd(id) ==
  /\ ws[id].pc = "run"
  /\ ws[id].from_local = <<>>
  /\ ws[id].rd = "ended"
  /\ ws' = [ws EXCEPT ![id].pc = "cleanup"]
  /\ UNCHANGED <<hdrVars, bodyVars, tuiVars, wireVars, dispVars, supVars, uiVars, connVars, handlerVars, histVars, httpVars, tcpVars>>

\* the task after run: ws_proxies.remove, then the task ends
WsCleanup(id) ==
  /\ disp.pc = "idle"
  /\ ws[id].pc = "cleanup"
  /\ ws' = [ws EXCEPT ![id].pc = "done", ![id].in_map = FALSE]
  /\ UNCHANGED <<hdrVars, bodyVars, tuiVars, wireVars, dispVars, supVars, uiVars, connVars, handlerVars, histVars, httpVars, tcpVars>>

\* the to-local writer's match on the opcode: the tungstenite Message it writes
\* for (opcode, data); a close is written as Message::Close(None)
ToLocalMessage(item) ==
  CASE item.opcode = "text" -> [kind |-> "Text", data |-> item.data, close_frame |-> NoCloseFrame]
    [] item.opcode = "ping" -> [kind |-> "Ping", data |-> item.data, close_frame |-> NoCloseFrame]
    [] item.opcode = "pong" -> [kind |-> "Pong", data |-> item.data, close_frame |-> NoCloseFrame]
    [] item.opcode = "close" -> [kind |-> "Close", data |-> 0, close_frame |-> NoCloseFrame]
    [] OTHER -> [kind |-> "Binary", data |-> item.data, close_frame |-> NoCloseFrame]

\* to-local writer: rx.recv() gave (opcode, data) and write.send wrote the message
WsWrite(id) ==
  /\ ws[id].wr = "running"
  /\ ws[id].to_local # <<>>
  /\ ws' = [ws EXCEPT ![id].written = Append(@, ToLocalMessage(Head(ws[id].to_local))),
                      ![id].to_local = Tail(@)]
  /\ UNCHANGED <<hdrVars, bodyVars, tuiVars, wireVars, dispVars, supVars, uiVars, connVars, handlerVars, histVars, httpVars, tcpVars>>

\* to-local writer: rx.recv() gave None, the proxy and its to_local_tx are gone
WsWriteEnd(id) ==
  /\ ws[id].wr = "running"
  /\ ws[id].to_local = <<>>
  /\ ws[id].pc = "done"
  /\ ~ws[id].in_map
  /\ ws' = [ws EXCEPT ![id].wr = "ended"]
  /\ UNCHANGED <<hdrVars, bodyVars, tuiVars, wireVars, dispVars, supVars, uiVars, connVars, handlerVars, histVars, httpVars, tcpVars>>

\* the server names a proxy it was told of: ws_upgraded on this connection, or a
\* proxy set up on an earlier connection
WsKnown(c, id) ==
  \/ WsUpgradedSeen(c, id)
  \/ ws[id].conn \in 1..(c - 1) /\ ws[id].pc \in {"run", "cleanup", "done"}

\* s.ws_proxies.get(&ws_id) in the ClientState of connection c
WsLookup(c, id) == ws[id].in_map /\ ws[id].conn = c

\* to_local_tx.send finds no room: the forwarding task still owns the receiving
\* end and the channel holds FLOW_CHANNEL_CAP frames
WsFull(id) ==
  /\ ws[id].wr = "running"
  /\ Len(ws[id].to_local) >= FLOW_CHANNEL_CAP

\* handle_message, IncomingMessage::WsFrame, sent by a server that has read
\* ws_upgraded: a proxy in ws_proxies gets (opcode, data) through send_to_local,
\* a frame for any other id is dropped; with no room in the channel the receiver
\* task stays inside send_to_local(..).await, read guard held
HandleWsFrame(c, id) ==
  /\ Followed(c)
  /\ reader[c] = "running"
  /\ disp.pc = "idle"
  /\ WsKnown(c, id)
  /\ ~ws[id].server_closed
  /\ InboundSent < inbound_limit
  /\ IF WsLookup(c, id) /\ WsFull(id)
       THEN /\ ws' = [ws EXCEPT ![id].dispatched = @ + 1]
            /\ disp' = [pc |-> "send", kind |-> "ws", id |-> id,
                        item |-> [opcode |-> "text", data |-> ws[id].dispatched + 1]]
       ELSE /\ ws' = [ws EXCEPT
                        ![id].dispatched = @ + 1,
                        ![id].to_local = IF WsLookup(c, id) /\ ws[id].wr = "running"
                                           THEN Append(@, [opcode |-> "text", data |-> ws[id].dispatched + 1])
                                           ELSE @]
            /\ disp' = disp
  /\ stale' = stale + (IF ws[id].conn = c THEN 0 ELSE 1)
  /\ UNCHANGED <<hdrVars, bodyVars, tuiVars, wireVars, inbound_limit, unparsed, supVars, uiVars, connVars, handlerVars, histVars, httpVars, tcpVars>>

\* what a ws_close frame of the server carries: code and reason, each optional
CloseCodes == {NoCode, Some(1001)}
CloseReasons == {NoReason, Some("going away")}
unwrap_or(opt, default) == IF opt.some THEN opt.s ELSE default

\* WebSocketProxy::close(&self, _code, _reason): ("close", vec![]) for the
\* to-local channel, whatever the code and the reason
close(code, reason) == [opcode |-> "close", data |-> 0]

\* handle_message, IncomingMessage::WsClose: the proxy leaves ws_proxies and
\* proxy.close(code.unwrap_or(1000), reason.unwrap_or("")) puts its item on the
\* to-local channel; with no room in the channel the receiver task stays inside
\* close(..).await, write guard held
HandleWsClose(c, id, code, reason) ==
  /\ Followed(c)
  /\ reader[c] = "running"
  /\ disp.pc = "idle"
  /\ WsKnown(c, id)
  /\ ~ws[id].server_closed
  /\ LET item == close(unwrap_or(code, 1000), unwrap_or(reason, "")) IN
     IF WsLookup(c, id) /\ WsFull(id)
       THEN /\ ws' = [ws EXCEPT ![id].server_closed = TRUE, ![id].in_map = @ /\ ~WsLookup(c, id),
                                ![id].close_code = code, ![id].close_reason = reason]
            /\ disp' = [pc |-> "send", kind |-> "ws", id |-> id, item |-> item]
       ELSE /\ ws' = [ws EXCEPT
                        ![id].server_closed = TRUE,
                        ![id].in_map = @ /\ ~WsLookup(c, id),
                        ![id].close_code = code, ![id].close_reason = reason,
                        ![id].to_local = IF WsLookup(c, id) /\ ws[id].wr = "running"
                                           THEN Append(@, item)
                                           ELSE @]
            /\ disp' = disp
  /\ stale' = stale + (IF ws[id].conn = c THEN 0 ELSE 1)
  /\ UNCHANGED <<hdrVars, bodyVars, tuiVars, wireVars, inbound_limit, unparsed, supVars, uiVars, connVars, handlerVars, histVars, httpVars, tcpVars>>

\* to_local_tx.send(..).await returns: the forwarding task took a frame and the
\* waiting one goes onto the channel, or the forwarding task ended and the send
\* fails
WsFrameSent(id) ==
  /\ disp.pc = "send"
  /\ disp.kind = "ws"
  /\ disp.id = id
  /\ ~WsFull(id)
  /\ ws' = [ws EXCEPT
              ![id].to_local = IF ws[id].wr = "running" THEN Append(@, disp.item) ELSE @]
  /\ disp' = DispIdle
  /\ UNCHANGED <<hdrVars, bodyVars, tuiVars, wireVars, inbound_limit, stale, unparsed, supVars, uiVars, connVars, handlerVars, histVars, httpVars, tcpVars>>

\* ------------------------------------------------ flow specifications
\* one TCP flow from tcp_connect to its teardown
NextTcp ==
  \/ \E id \in TcpIds, k \in TcpTunnelIds : HandleTcpConnect(attempt, id, k)
  \/ \E id \in TcpIds : TcpConnectOk(id)
  \/ \E id \in TcpIds, e \in DialErrors : TcpConnectErr(id, e)
  \/ \E id \in TcpIds : TcpInsert(id)
  \/ \E id \in TcpIds : TcpRead(id)
  \/ \E id \in TcpIds : TcpReadEof(id)
  \/ \E id \in TcpIds : TcpWrite(id)
  \/ \E id \in TcpIds : TcpWriteEnd(id)
  \/ \E id \in TcpIds : TcpCleanup(id)
  \/ \E id \in TcpIds : HandleTcpData(attempt, id)
  \/ \E id \in TcpIds : HandleTcpClose(attempt, id)
  \/ \E id \in TcpIds, e \in ReadErrors : TcpReadErr(id, e)
  \/ WriterWrite(attempt)
  \/ WriterFail(attempt)

SpecTcp == InitEstablished /\ [][NextTcp]_vars

\* one WebSocket flow from ws_upgrade to its teardown
NextWs ==
  \/ \E id \in WsIds, k \in TunnelIds : HandleWsUpgrade(attempt, id, k)
  \/ \E id \in WsIds : WsConnectOk(id)
  \/ \E id \in WsIds, e \in DialErrors : WsConnectErr(id, e)
  \/ \E id \in WsIds : WsInsert(id)
  \/ \E id \in WsIds : WsLocalRead(id)
  \/ \E id \in WsIds, frame \in LocalCloseFrames : WsLocalClose(id, frame)
  \/ \E id \in WsIds : WsReadEnd(id)
  \/ \E id \in WsIds : WsRun(id)
  \/ \E id \in WsIds : WsRunEnd(id)
  \/ \E id \in WsIds : WsCleanup(id)
  \/ \E id \in WsIds : WsWrite(id)
  \/ \E id \in WsIds : WsWriteEnd(id)
  \/ \E id \in WsIds : HandleWsFrame(attempt, id)
  \/ \E id \in WsIds, code \in CloseCodes, reason \in CloseReasons :
        HandleWsClose(attempt, id, code, reason)
  \/ WriterWrite(attempt)
  \/ WriterFail(attempt)

SpecWs == InitEstablished /\ [][NextWs]_vars
\* the flow's task is scheduled: once proxy.run has returned, it takes the write
\* lock when the lock is free and removes the proxy
FairSpecWs == SpecWs /\ WF_vars(\E id \in WsIds : WsCleanup(id))

\* a TCP flow and a WebSocket flow open together, traffic in both directions
NextFlow ==
  \/ \E id \in TcpIds, k \in TcpTunnelIds : HandleTcpConnect(attempt, id, k)
  \/ \E id \in TcpIds : TcpConnectOk(id)
  \/ \E id \in TcpIds : TcpInsert(id)
  \/ \E id \in TcpIds : TcpRead(id)
  \/ \E id \in TcpIds : TcpWrite(id)
  \/ \E id \in TcpIds : HandleTcpData(attempt, id)
  \/ \E id \in WsIds, k \in TunnelIds : HandleWsUpgrade(attempt, id, k)
  \/ \E id \in WsIds : WsConnectOk(id)
  \/ \E id \in WsIds : WsInsert(id)
  \/ \E id \in WsIds : WsLocalRead(id)
  \/ \E id \in WsIds : WsRun(id)
  \/ \E id \in WsIds : WsWrite(id)
  \/ \E id \in WsIds : HandleWsFrame(attempt, id)
  \/ WriterWrite(attempt)

SpecFlow == InitEstablished /\ [][NextFlow]_vars

\* everything that sends on the control connection at work together, after the
\* two registrations: a request, a TCP flow, heartbeats and pongs
NextWire ==
  \/ req = <<>> /\ HandleTunnelRequest(attempt, "r1", 1)
  \/ \E t \in 1..Len(req), r \in OriginResponses : ForwardOk(t, r)
  \/ \E t \in 1..Len(req) : ResponseSend(t)
  \/ \E id \in TcpIds, k \in TcpTunnelIds : HandleTcpConnect(attempt, id, k)
  \/ \E id \in TcpIds : TcpConnectOk(id)
  \/ Heartbeat(attempt)
  \/ HandlePing(attempt)
  \/ WriterWrite(attempt)
  \/ WriterWritePong(attempt)
  \/ WriterFail(attempt)
  \/ WriterFailPong(attempt)

SpecWire == InitEstablished /\ [][NextWire]_vars

\* a tcp_connect and a ws_upgrade whose local dials succeed or fail, with the
\* server sending into the flows it was told of and a writer that may fail
NextDial ==
  \/ \E id \in TcpIds, k \in TcpTunnelIds : HandleTcpConnect(attempt, id, k)
  \/ \E id \in TcpIds : TcpConnectOk(id)
  \/ \E id \in TcpIds, e \in DialErrors : TcpConnectErr(id, e)
  \/ \E id \in TcpIds : TcpInsert(id)
  \/ \E id \in TcpIds : HandleTcpData(attempt, id)
  \/ \E id \in WsIds, k \in TunnelIds : HandleWsUpgrade(attempt, id, k)
  \/ \E id \in WsIds : WsConnectOk(id)
  \/ \E id \in WsIds, e \in DialErrors : WsConnectErr(id, e)
  \/ \E id \in WsIds : WsInsert(id)
  \/ \E id \in WsIds : HandleWsFrame(attempt, id)
  \/ WriterWrite(attempt)
  \/ WriterFail(attempt)

SpecDial == InitEstablished /\ [][NextDial]_vars

\* text frames that parse and that do not, with requests, a new TCP flow and
\* the writer at work
NextParse ==
  \/ \E text \in InboundTexts : HandleUnparsed(attempt, text)
  \/ \E text \in InboundTexts, k \in TunnelIds :
        from_json(text) = "tunnel_request" /\ HandleTunnelRequest(attempt, "r1", k)
  \/ \E t \in 1..Len(req), r \in OriginResponses : ForwardOk(t, r)
  \/ \E t \in 1..Len(req) : ResponseSend(t)
  \/ \E id \in TcpIds, k \in TcpTunnelIds : HandleTcpConnect(attempt, id, k)
  \/ \E id \in TcpIds : TcpConnectOk(id)
  \/ \E id \in TcpIds : TcpInsert(id)
  \/ WriterWrite(attempt)
  \/ ReceiverEnd(attempt)

SpecParse == InitEstablished /\ [][NextParse]_vars

\* registrations and their confirmations over a first connection and its
\* reconnects, the UI submitting tunnels with different ports
RegisterCommands ==
  Commands \cup {[cmd |-> "AddHttpTunnel", local_port |-> 9090, subdomain |-> "bar"]}

NextRegister ==
  \/ attempt < MaxConns /\ BeginAttempt
  \/ DialOk
  \/ ReRegister
  \/ SpawnTasks
  \/ TryRecvSome
  \/ FirstDrainEmpty
  \/ SelectLost
  \/ FinalDrainEmpty
  \/ SleepDone
  \/ \E cmd \in RegisterCommands : FormSubmit(cmd)
  \/ HandlerRecv
  \/ HandlerTrack
  \/ HandlerSend
  \/ \E c \in Conns : WriterWrite(c)
  \/ \E c \in Conns : HandleTunnelRegistered(c)
  \/ \E c \in Conns : HandleTcpTunnelRegistered(c)
  \/ \E c \in Conns : ReceiverEnd(c)

SpecRegister == Init /\ [][NextRegister]_vars

\* flows and tunnels set up on one connection, the connection lost, and the next
\* connection's receiver handed frames that name the earlier ids
NextReconnect ==
  \/ \E id \in TcpIds, k \in TcpTunnelIds : HandleTcpConnect(attempt, id, k)
  \/ \E id \in TcpIds : TcpConnectOk(id)
  \/ \E id \in TcpIds : TcpInsert(id)
  \/ \E id \in TcpIds : HandleTcpData(attempt, id)
  \/ \E id \in TcpIds : HandleTcpClose(attempt, id)
  \/ \E id \in WsIds, k \in TunnelIds : HandleWsUpgrade(attempt, id, k)
  \/ \E id \in WsIds : WsConnectOk(id)
  \/ \E id \in WsIds : WsInsert(id)
  \/ \E id \in WsIds : HandleWsFrame(attempt, id)
  \/ \E id \in WsIds : HandleWsClose(attempt, id, NoCode, NoReason)
  \/ WriterWrite(attempt)
  \/ ReceiverEnd(attempt)
  \/ SelectLost
  \/ TryRecvSome
  \/ FinalDrainEmpty
  \/ SleepDone
  \/ attempt < MaxConns /\ BeginAttempt
  \/ DialOk
  \/ ReRegister
  \/ SpawnTasks
  \/ FirstDrainEmpty
  \/ HandleTunnelRegistered(attempt)
  \/ HandleTcpTunnelRegistered(attempt)

SpecReconnect == InitEstablished /\ [][NextReconnect]_vars

\* a local origin that reads nothing until its flow's channel is full and the
\* receiver task waits for room: the server sends more data frames than the
\* channel holds, next to a second flow and tunnel_requests
InitSlow ==
  Established /\ NoTasks /\ inbound_limit = FLOW_CHANNEL_CAP + MaxBlocked /\ NoBody /\ NoHeaders

NextSlow ==
  \/ \E id \in TcpIds, k \in TcpTunnelIds : HandleTcpConnect(attempt, id, k)
  \/ \E id \in TcpIds : TcpConnectOk(id)
  \/ \E id \in TcpIds : TcpInsert(id)
  \/ \E id \in TcpIds : disp.pc = "send" /\ TcpWrite(id)
  \/ \E id \in TcpIds : HandleTcpData(attempt, id)
  \/ \E id \in TcpIds : TcpDataSent(id)
  \/ \E id \in WsIds, k \in TunnelIds : HandleWsUpgrade(attempt, id, k)
  \/ \E id \in WsIds : WsConnectOk(id)
  \/ \E id \in WsIds : WsInsert(id)
  \/ \E k \in TunnelIds : HandleTunnelRequest(attempt, "r1", k)
  \/ WriterWrite(attempt)

SpecSlow == InitSlow /\ [][NextSlow]_vars

\* the same with the WebSocket flow as the slow one
NextSlowWs ==
  \/ \E id \in WsIds, k \in TunnelIds : HandleWsUpgrade(attempt, id, k)
  \/ \E id \in WsIds : WsConnectOk(id)
  \/ \E id \in WsIds : WsInsert(id)
  \/ \E id \in WsIds : disp.pc = "send" /\ WsWrite(id)
  \/ \E id \in WsIds : HandleWsFrame(attempt, id)
  \/ \E id \in WsIds : HandleWsClose(attempt, id, NoCode, NoReason)
  \/ \E id \in WsIds : WsFrameSent(id)
  \/ \E k \in TunnelIds : HandleTunnelRequest(attempt, "r1", k)
  \/ WriterWrite(attempt)

SpecSlowWs == InitSlow /\ [][NextSlowWs]_vars

\* ============================================================ properties
IsPrefix(s, t) == Len(s) <= Len(t) /\ SubSeq(t, 1, Len(s)) = s

\* the register frame a tracked TunnelConfig calls for
ExpectedRegister(config) ==
  IF config.kind = "Http"
    THEN [type |-> "register_tunnel", local_port |-> config.local_port,
          subdomain |-> config.subdomain]
    ELSE [type |-> "register_tcp_tunnel", local_port |-> config.local_port,
          subdomain |-> ""]
ExpectedRegisters == [i \in 1..Len(registered_tunnels) |-> ExpectedRegister(registered_tunnels[i])]
PortsOf(kind) ==
  LET sel == SelectSeq(registered_tunnels, LAMBDA cfg : cfg.kind = kind)
  IN [i \in 1..Len(sel) |-> sel[i].local_port]

\* the re-register loop of the current attempt has run to its end and the tasks that
\* follow it are not yet spawned
ReRegisterDone == sup_pc = "reregister" /\ rereg_idx > Len(registered_tunnels)

\* the pending entries of the tracked tunnels are there, in order, and the dispatcher
\* of this connection has not started
PendingRestored ==
  /\ pending_tunnels[attempt] = PortsOf("Http")
  /\ pending_tcp_tunnels[attempt] = PortsOf("Tcp")
  /\ reader[attempt] = "none"
  /\ tunnels_registered[attempt] = 0
  /\ tcp_tunnels_registered[attempt] = 0

\* C1 as stated: after the re-register loop of every connection the writer queue has
\* received exactly one register frame per tracked TunnelConfig, in tracked order,
\* each with its pending entry, and the dispatcher has handled nothing yet.
C1_ReRegisterAll ==
  ReRegisterDone => (PendingRestored /\ msg_enq[attempt] = ExpectedRegisters)

\* C1 amended: as C1, except that once the writer task has stopped on a sink error
\* (its queue closed) the remaining register frames are discarded: the queue then
\* holds a prefix of the expected frames. While the reader is not spawned nothing
\* inbound is handled.
C1_ReRegisterWhileWriterRuns ==
  /\ ReRegisterDone =>
       /\ PendingRestored
       /\ IsPrefix(msg_enq[attempt], ExpectedRegisters)
       /\ msg_rx_open[attempt] => msg_enq[attempt] = ExpectedRegisters
  /\ sup_pc = "reregister" => reader[attempt] = "none"

C1_Witness ==
  /\ ReRegisterDone
  /\ attempt >= 2
  /\ Len(registered_tunnels) = 2
  /\ msg_rx_open[attempt]
  /\ Len(msg_enq[attempt]) = 2
  /\ Len(pending_tunnels[attempt]) + Len(pending_tcp_tunnels[attempt]) = 2

\* C2: every command the handler has consumed is tracked exactly once, in order, and
\* whatever it had consumed when a connection attempt began is tracked by then (a
\* command whose tracking send was still in progress at that moment is not counted).
C2_TrackedByNextAttempt ==
  /\ IsPrefix(registered_tunnels, consumed)
  /\ Len(registered_tunnels) >= consumed_at_begin

\* C3: whenever a dial has succeeded and the connection's tasks are spawned, a command
\* handler bound to that connection is running (as long as its writer is).
C3_HandlerOnCurrentConnection ==
  (sup_pc \in {"drain1", "select"} /\ msg_rx_open[attempt]) => HandlerHolds(attempt)

\* C4: after the tenth failed attempt the supervisor has returned an error, its last
\* status event is Disconnected "Failed after 10 attempts: <error>", it slept 9 times
\* and never dials an 11th time; with fewer failures that event is never emitted.
C4_GiveUpAfterTen ==
  /\ attempt <= 10
  /\ failures = 10 =>
       /\ sup_pc = "done"
       /\ result = "err"
       /\ status = [kind |-> "Disconnected", attempt |-> 0, next_retry_secs |-> 0,
                    reason |-> [prefix |-> "Failed after", n |-> 10, text |-> last_error]]
       /\ sleep_count = 9
  /\ failures < 10 => status.reason.prefix # "Failed after"
  /\ result = "err" => failures = 10

C4_Witness == failures = 10 /\ sup_pc = "done" /\ result = "err"

\* C5: a delay slept after an attempt that had dialled successfully is the initial
\* 1000 ms.
C5_BackoffResetAfterConnect ==
  last_sleep_dialed => last_sleep_ms = 1000

\* C6: the first delay slept is 1000 ms, each later one is min(60000, floor(1.5 x the
\* one before)), and backoff_ms stays within 1000..60000 and never decreases.
C6_BackoffSequence ==
  /\ backoff_ms >= 1000 /\ backoff_ms <= 60000
  /\ backoff_ms >= prev_backoff_ms
  /\ sleep_count = 1 => last_sleep_ms = 1000
  /\ sleep_count >= 2 =>
       last_sleep_ms = IF (3 * prev_sleep_ms) \div 2 <= 60000
                         THEN (3 * prev_sleep_ms) \div 2 ELSE 60000

C6_Witness == sleep_count = 9 /\ last_sleep_ms = 25624 /\ backoff_ms = 38436

\* ------------------------------------------------------------------ C7
\* tunnel_response frames enqueued on any writer queue for request id `id`
Responses(id) ==
  [c \in Conns |-> SelectSeq(msg_enq[c], LAMBDA f : f.type = "tunnel_response"
                                                     /\ f.request_id = id)]
RECURSIVE SumLen(_, _)
SumLen(f, n) == IF n = 0 THEN 0 ELSE Len(f[n]) + SumLen(f, n - 1)
\* tunnel_request frames dispatched with request id `id`
Dispatched(id) == {t \in 1..Len(req) : req[t].request_id = id}

\* C7: the tunnel_response frames enqueued for a request id never outnumber the
\* tunnel_request frames dispatched with that id, and every tunnel_response enqueued
\* bears the id of a dispatched request.
C7_AtMostOneResponse ==
  /\ \A id \in RequestIds : SumLen(Responses(id), MAX_RECONNECT_ATTEMPTS)
                                <= Cardinality(Dispatched(id))
  /\ \A c \in Conns : \A i \in 1..Len(msg_enq[c]) :
       msg_enq[c][i].type = "tunnel_response" => Dispatched(msg_enq[c][i].request_id) # {}

\* two requests in flight together, answered in the opposite order
C7_Witness ==
  /\ Len(req) = 2
  /\ req[1].request_id = "r1" /\ req[2].request_id = "r2"
  /\ req[1].pc = "done" /\ req[2].pc = "done"
  /\ Len(msg_enq[1]) = 4
  /\ msg_enq[1][3].type = "tunnel_response" /\ msg_enq[1][3].request_id = "r2"
  /\ msg_enq[1][4].type = "tunnel_response" /\ msg_enq[1][4].request_id = "r1"

\* ------------------------------------------------------------------ C8
\* request tasks whose forward failed and which have run to their end
FailedDone == {t \in 1..Len(req) : req[t].pc = "done" /\ req[t].response = "err"}
\* the frame the claim calls for
Expected502(t) ==
  [type |-> "tunnel_response", request_id |-> req[t].request_id, status |-> 502,
   headers |-> <<<<"content-type", "text/plain">>>>,
   body |-> Some(as_bytes("Bad Gateway: ") \o as_bytes(req[t].error)),
   body_encoding |-> "none"]
\* how often it stands on the writer queue of the task's connection, and how many
\* finished tasks call for that same frame
Enqueued502(t) == Len(SelectSeq(msg_enq[req[t].conn], LAMBDA f : f = Expected502(t)))
SameFailure(t) == {u \in FailedDone : req[u].conn = req[t].conn
                                       /\ req[u].request_id = req[t].request_id
                                       /\ req[u].error = req[t].error}
\* a step of request task t after its forward has failed
FailedStep(t) == /\ t <= Len(req)
                 /\ req'[t] # req[t]
                 /\ req'[t].response = "err"
\* such a step touches nothing but the task itself and the tail of its writer queue
OthersUntouched(t) ==
  /\ Len(req') = Len(req)
  /\ \A u \in 1..Len(req) : u # t => req'[u] = req[u]
  /\ \A c \in Conns : /\ IsPrefix(msg_enq[c], msg_enq'[c])
                       /\ c # req[t].conn => msg_enq'[c] = msg_enq[c]
  /\ UNCHANGED <<supVars, uiVars, handlerVars, msg_taken, msg_rx_open, cfg_chan,
                 cfg_rx_open, pending_tunnels, pending_tcp_tunnels, tunnels,
                 tunnels_registered, tcp_tunnels, tcp_tunnels_registered, reader,
                 tcpVars, wsVars>>

\* C8 as stated: every request whose forward failed has exactly one tunnel_response
\* with status 502, content-type text/plain and body "Bad Gateway: {e}" on the
\* writer queue, and the failure touches nothing else.
C8_ExactlyOne502 ==
  /\ [](\A t \in FailedDone : Enqueued502(t) = Cardinality(SameFailure(t)))
  /\ [][\A t \in 1..MaxRequests : FailedStep(t) => OthersUntouched(t)]_vars

\* C8, amended: exactly one such frame while the writer task of the connection is
\* running, never more than one, and none once the writer has dropped its queue;
\* the failure touches nothing else.
C8_One502WhileWriterRuns ==
  /\ [](\A t \in FailedDone :
          /\ Enqueued502(t) <= Cardinality(SameFailure(t))
          /\ msg_rx_open[req[t].conn] => Enqueued502(t) = Cardinality(SameFailure(t)))
  /\ [][\A t \in 1..MaxRequests : FailedStep(t) => OthersUntouched(t)]_vars

\* a failed request answered with its 502 while another request is still in flight
C8_Witness ==
  /\ Len(req) = 2
  /\ req[1].pc = "done" /\ req[1].response = "err"
  /\ req[2].pc = "forward"
  /\ msg_rx_open[1]
  /\ Len(msg_enq[1]) = 3
  /\ msg_enq[1][3] = Expected502(1)

\* ------------------------------------------------------------------ C9
\* the chunks 1..n in the order the server sent them
UpTo(n) == [i \in 1..n |-> i]

\* C9: while the local origin of a TCP flow is open and the server has not closed the
\* flow, the chunks the server has sent after reading tcp_connected are exactly the
\* chunks written to the origin followed by those waiting on the flow's channel, in
\* the order sent: none lost, none twice, none out of order.
C9_ChunksWrittenInOrder ==
  \A id \in TcpIds :
    (tcp[id].origin_open /\ ~tcp[id].server_closed)
      => tcp[id].written \o tcp[id].local_q = UpTo(tcp[id].dispatched)

\* ----------------------------------------------------------------- C10
Increasing(seq) == \A i, j \in 1..Len(seq) : i < j => seq[i] < seq[j]
Within(seq, n) == \A i \in 1..Len(seq) : seq[i] \in 1..n
\* the chunks of the frames enqueued toward the server for a flow, on any connection
TcpOut(c, id) ==
  LET fs == SelectSeq(msg_enq[c], LAMBDA f : f.type = "tcp_data" /\ f.tcp_id = id) IN
    [i \in 1..Len(fs) |-> fs[i].data.base64]
WsOut(c, id) ==
  LET fs == SelectSeq(msg_enq[c], LAMBDA f : f.type = "ws_frame" /\ f.ws_id = id) IN
    [i \in 1..Len(fs) |-> fs[i].data]
\* the payloads written to the local WebSocket origin
WsWritten(id) == [i \in 1..Len(ws[id].written) |-> ws[id].written[i].data]

\* C10: for every tcp id and ws id, the payloads written to its local origin are
\* payloads the dispatcher dequeued for that id, in the order it dequeued them, and
\* the payloads of the frames enqueued toward the server for that id are payloads
\* read from that origin, in the order they were read.
C10_PerFlowOrder ==
  /\ \A id \in TcpIds :
       /\ Increasing(tcp[id].written) /\ Within(tcp[id].written, tcp[id].dispatched)
       /\ \A c \in Conns : Increasing(TcpOut(c, id)) /\ Within(TcpOut(c, id), tcp[id].read)
  /\ \A id \in WsIds :
       /\ Increasing(WsWritten(id)) /\ Within(WsWritten(id), ws[id].dispatched)
       /\ \A c \in Conns : Increasing(WsOut(c, id)) /\ Within(WsOut(c, id), ws[id].read)

\* two chunks through the TCP flow each way with traffic of the WebSocket flow in
\* between on the shared writer queue
C10_Witness ==
  /\ tcp["c1"].written = <<1, 2>>
  /\ WsWritten("w1") = <<1>>
  /\ Len(msg_enq[1]) = 7
  /\ msg_enq[1][5] = tcp_data("c1", 1)
  /\ msg_enq[1][6] = ws_frame("w1", "text", 1)
  /\ msg_enq[1][7] = tcp_data("c1", 2)

\* ---------------------------------------------------------------- C11
\* C11: flows progress independently: while flow A's channel is full and a
\* chunk for A is waiting for room, a tunnel_request that arrives next, and a
\* frame that opens another flow B, are still dispatched without waiting for
\* A's channel to drain
C11_IndependentProgress ==
  \A a \in TcpIds :
    (disp.pc = "send" /\ disp.kind = "tcp" /\ disp.id = a /\ TcpFull(a)) =>
      /\ Len(req) < MaxRequests =>
            ENABLED (\E k \in TunnelIds : HandleTunnelRequest(attempt, "r1", k))
      /\ \A b \in WsIds : ws[b].pc = "none" =>
            ENABLED (\E k \in TunnelIds : HandleWsUpgrade(attempt, b, k))

\* ---------------------------------------------------------------- C12
\* the text frames and the pongs the sink of connection c has taken, in order
SinkText(c) ==
  LET t == SelectSeq(sink[c], LAMBDA m : m.msg = "text")
  IN [i \in 1..Len(t) |-> t[i].frame]
SinkPongs(c) ==
  LET t == SelectSeq(sink[c], LAMBDA m : m.msg = "pong")
  IN [i \in 1..Len(t) |-> t[i].frame]

\* C12: on each control connection only the sender task writes to the sink, and
\* what the sink has taken is, in order, what the sender task took from the
\* message queue and from the raw-message queue: registrations, responses, flow
\* frames, heartbeats and pongs reach the sink through those two queues only
C12_SingleWriter ==
  \A c \in Conns :
    /\ \A i \in 1..Len(sink[c]) : sink[c][i].by = "sender"
    /\ IsPrefix(SinkText(c), msg_enq[c])
    /\ Len(SinkText(c)) <= msg_taken[c]
    /\ IsPrefix(SinkPongs(c), raw_enq[c])
    /\ Len(SinkPongs(c)) <= raw_taken[c]

\* the sink has taken a registration, a response, a flow frame, a heartbeat and
\* a pong
C12_Witness ==
  /\ \A ty \in {"register_tunnel", "tunnel_response", "tcp_connected", "heartbeat"} :
       \E i \in 1..Len(SinkText(1)) : SinkText(1)[i].type = ty
  /\ SinkPongs(1) # <<>>

\* ---------------------------------------------------------------- C13
\* the ClientState of connection c holds no tunnel and no flow
EmptyState(c) ==
  /\ tunnels[c] = <<>>
  /\ tcp_tunnels[c] = <<>>
  /\ \A id \in TcpIds : ~TcpLookup(c, id)
  /\ \A id \in WsIds : ~WsLookup(c, id)

\* C13: the receiver task of a connection starts on a ClientState with no tunnel
\* and no flow in it; a tcp_data, tcp_close, ws_frame or ws_close that names a
\* flow of an earlier connection reaches no flow (nothing is queued for it, it
\* stays where it was, the receiver task does not wait on it), and a tcp_connect
\* or ws_upgrade opens a flow only on the connection it came on, a tcp_connect
\* only through a tunnel registered on that connection
C13_FreshState ==
  [][/\ (sup_pc = "reregister" /\ sup_pc' = "drain1") => EmptyState(attempt)'
     /\ stale' # stale =>
          /\ \A id \in TcpIds : /\ tcp'[id].local_q = tcp[id].local_q
                                /\ tcp'[id].in_map = tcp[id].in_map
          /\ \A id \in WsIds : /\ ws'[id].to_local = ws[id].to_local
                               /\ ws'[id].in_map = ws[id].in_map
          /\ disp' = disp
     /\ \A id \in TcpIds : tcp[id].pc = "none" /\ tcp'[id].pc # "none" =>
          tcp'[id].conn = attempt /\ tcp_tunnels[attempt] # <<>>
     /\ \A id \in WsIds : ws[id].pc = "none" /\ ws'[id].pc # "none" =>
          ws'[id].conn = attempt
    ]_vars

\* the second connection's receiver has been handed a frame naming a flow of the
\* first, which is still in the first connection's state, before any tunnel was
\* confirmed on the second
C13_Witness ==
  /\ attempt = 2
  /\ reader[2] = "running"
  /\ stale > 0
  /\ EmptyState(2)
  /\ \E id \in TcpIds : tcp[id].conn = 1 /\ tcp[id].in_map
  /\ \E id \in WsIds : ws[id].conn = 1 /\ ws[id].in_map

\* ---------------------------------------------------------------- C14
\* connect_and_run_once has returned an error for connection c
Returned(c) ==
  \/ c < attempt
  \/ c = attempt /\ sup_pc \in {"sleep", "loop", "done"} /\ result # "ok"

\* C14: an attempt whose select saw a task end returns "Connection lost", and
\* once an attempt has returned none of its tasks takes a further step: its
\* sender task takes nothing more from its queues and writes nothing, its
\* receiver and heartbeat tasks stay as they are, its command handler does not
\* move
C14_SiblingsAborted ==
  [][/\ (sup_pc = "drain2" /\ select_result = "lost" /\ sup_pc' # "drain2") =>
          last_error' = "Connection lost" /\ result' # "ok"
     /\ \A c \in Conns : Returned(c) =>
          /\ msg_taken'[c] = msg_taken[c]
          /\ raw_taken'[c] = raw_taken[c]
          /\ sink'[c] = sink[c]
          /\ reader'[c] = reader[c]
          /\ heartbeat'[c] = heartbeat[c]
          /\ h_conn = c => h_pc' = h_pc /\ h_cmd' = h_cmd
    ]_vars

\* ---------------------------------------------------------------- C15
\* C15: a shutdown signal taken by the select of a connected attempt ends the
\* attempt with Ok; run then emits Disconnected{"Connection closed"}, which stays
\* the last status event, dials no more and has returned Ok; an attempt returns
\* Ok in no other case
C15_ShutdownOk ==
  /\ [](result = "ok" =>
          /\ sup_pc = "done"
          /\ status = StatusDisconnected(Reason("Connection closed")))
  /\ [][/\ (sup_pc = "drain2" /\ select_result = "ctrl_c" /\ sup_pc' # "drain2") =>
             result' = "ok"
        /\ (result # "ok" /\ result' = "ok") =>
             /\ sup_pc = "drain2"
             /\ select_result = "ctrl_c"
             /\ dialed
        /\ (select_result # "ctrl_c" /\ select_result' = "ctrl_c") =>
             sup_pc = "select" /\ status = StatusConnected
        /\ result = "ok" =>
             /\ result' = "ok"
             /\ attempt' = attempt
             /\ status' = status
             /\ sup_pc' = sup_pc
       ]_vars

\* run has returned Ok after a shutdown signal on its third connection, and the
\* UI has gone on submitting since
C15_Witness ==
  /\ result = "ok"
  /\ attempt = 3
  /\ status = StatusDisconnected(Reason("Connection closed"))
  /\ cmd_chan # <<>>

\* ---------------------------------------------------------------- C16
\* the local ports of the register_tunnel frames sent on connection c, in order
HttpSent(c) ==
  LET sent == SelectSeq(msg_enq[c], LAMBDA f : f.type = "register_tunnel")
  IN [i \in 1..Len(sent) |-> sent[i].local_port]

\* the local ports of the TunnelRegistered events of connection c, in order
HttpEvents(c) ==
  LET ev == SelectSeq(tunnel_events[c], LAMBDA e : e.event = "TunnelRegistered")
  IN [i \in 1..Len(ev) |-> ev[i].local_port]

\* C16: on each connection the k-th tunnel_registered dispatched records the
\* local port of the k-th register_tunnel sent on that connection, and the UI
\* gets a TunnelRegistered event with that port
C16_ConfirmationsInOrder ==
  \A c \in Conns :
    /\ Len(tunnels[c]) = tunnels_registered[c]
    /\ IsPrefix(tunnels[c], HttpSent(c))
    /\ HttpEvents(c) = tunnels[c]

\* two HTTP tunnels with different ports, submitted on the first connection, are
\* re-registered and confirmed on the second
C16_Witness ==
  /\ attempt = 2
  /\ tunnels[2] = <<9090, 8080>>
  /\ HttpEvents(2) = <<9090, 8080>>
  /\ Len(registered_tunnels) = 2

\* ---------------------------------------------------------------- C17
\* C17: a text frame that does not parse changes nothing in any ClientState,
\* puts nothing on either writer queue, leaves the receiver task running and
\* between two frames, and the frame that comes next, a tunnel_request here, is
\* dispatched as it would have been
C17_UnparsedIgnored ==
  /\ [][unparsed' # unparsed =>
          /\ UNCHANGED <<tunnels, tunnels_registered, tcp_tunnels, tcp_tunnels_registered,
                         pending_tunnels, pending_tcp_tunnels, tcp, ws, req>>
          /\ UNCHANGED <<msg_enq, raw_enq, msg_taken, sink, tunnel_events>>
          /\ reader' = reader
          /\ disp' = disp /\ disp.pc = "idle"
       ]_vars
  /\ [](unparsed > 0 /\ reader[attempt] = "running" /\ Len(req) < MaxRequests =>
          ENABLED HandleTunnelRequest(attempt, "r1", 1))

\* after two frames that did not parse, a request was dispatched and answered and
\* a TCP flow was opened
C17_Witness ==
  /\ unparsed = MaxUnparsed
  /\ reader[attempt] = "running"
  /\ \E t \in 1..Len(req) : req[t].pc = "done"
  /\ \E id \in TcpIds : tcp[id].in_map

\* ============================================================ body round trip
\* the bytes bodies are drawn from: NUL, ASCII, the two bytes of U+00E9, the three
\* bytes of U+20AC, and 0xFF, which no UTF-8 text holds
BodyBytes == {0, 65, 195, 169, 226, 130, 172, 255}
RECURSIVE ByteStrings(_)
ByteStrings(n) ==
  IF n = 0 THEN {<<>>}
  ELSE ByteStrings(n - 1)
       \cup {Append(d, b) : d \in {e \in ByteStrings(n - 1) : Len(e) = n - 1}, b \in BodyBytes}
Bodies == {None} \cup {Some(d) : d \in ByteStrings(MaxBodyLen)}

\* one body handed to tunnel_response
InitBody ==
  /\ Established /\ NoTasks /\ inbound_limit = MaxInbound /\ NoHeaders
  /\ \E x \in Bodies :
       roundtrip = [pc |-> "new", x |-> x, pair |-> [body |-> None, body_encoding |-> "none"],
                    y |-> None, pair2 |-> [body |-> None, body_encoding |-> "none"]]

\* let (body_str, encoding) = encode_body(body)
EncodeBody ==
  /\ roundtrip.pc = "new"
  /\ roundtrip' = [roundtrip EXCEPT !.pc = "encoded", !.pair = encode_body(roundtrip.x)]
  /\ UNCHANGED <<hdrVars, tuiVars, wireVars, dispVars, supVars, uiVars, connVars, handlerVars, histVars, taskVars>>

\* decode_body(body.as_deref(), body_encoding.as_deref()) on the receiving side
DecodeBody ==
  /\ roundtrip.pc = "encoded"
  /\ roundtrip' = [roundtrip EXCEPT !.pc = "decoded",
                     !.y = decode_body(roundtrip.pair.body, roundtrip.pair.body_encoding)]
  /\ UNCHANGED <<hdrVars, tuiVars, wireVars, dispVars, supVars, uiVars, connVars, handlerVars, histVars, taskVars>>

\* the decoded body handed to tunnel_response again
ReEncodeBody ==
  /\ roundtrip.pc = "decoded"
  /\ roundtrip' = [roundtrip EXCEPT !.pc = "done", !.pair2 = encode_body(roundtrip.y)]
  /\ UNCHANGED <<hdrVars, tuiVars, wireVars, dispVars, supVars, uiVars, connVars, handlerVars, histVars, taskVars>>

NextBody == EncodeBody \/ DecodeBody \/ ReEncodeBody
SpecBody == InitBody /\ [][NextBody]_vars

\* ------------------------------------------------------------------ C18
\* C18: the body encoding is reversible. For every optional byte string x,
\* encode_body(x) is (absent, no tag) for an absent x, (empty, no tag) for an empty
\* one, (x verbatim, no tag) for valid UTF-8 and tagged "base64" otherwise;
\* decode_body of that pair is x; and encode_body of the decoded body is the pair
\* again.
C18_Reversible ==
  LET x == roundtrip.x
      pair == roundtrip.pair
  IN /\ roundtrip.pc \in {"encoded", "decoded", "done"} =>
          /\ ~x.some => pair = [body |-> None, body_encoding |-> "none"]
          /\ x = Some(<<>>) => pair = [body |-> Some(<<>>), body_encoding |-> "none"]
          /\ x.some /\ IsUtf8(x.s) => pair = [body |-> x, body_encoding |-> "none"]
          /\ x.some /\ ~IsUtf8(x.s) => pair.body.some /\ pair.body_encoding = "base64"
     /\ roundtrip.pc \in {"decoded", "done"} => roundtrip.y = x
     /\ roundtrip.pc = "done" => roundtrip.pair2 = pair
\* 0xFF 0x00 is not UTF-8: it went out as "/wA=" tagged base64 and came back
C18_Witness ==
  /\ roundtrip.pc = "done"
  /\ roundtrip.x = Some(<<255, 0>>)
  /\ roundtrip.pair = [body |-> Some(<<47, 119, 65, 61>>), body_encoding |-> "base64"]
  /\ roundtrip.y = Some(<<255, 0>>)
  /\ roundtrip.pair2 = roundtrip.pair

\* ------------------------------------------------------------------ C19
\* the step that dispatches a tunnel_request, and the task it spawned
RequestDispatched == Len(req') = Len(req) + 1
NewTask == req'[Len(req')]
\* the task was dispatched for a tunnel_id the tunnels map of its connection lacks;
\* tunnels only grows while the connection lasts
Unregistered(t) == req[t].tunnel_id \notin 1..Len(tunnels[req[t].conn])
\* the step in which request task t sends its frame
Sends(t) == t <= Len(req) /\ req[t].pc = "send" /\ req'[t].pc = "done"
IsResponseFor(f, t) == f.type = "tunnel_response" /\ f.request_id = req[t].request_id
\* a request is forwarded to the configured host, on the recorded local_port of its
\* tunnel when the tunnel_id is registered and on port 3000 when it is not
ForwardTarget ==
  RequestDispatched =>
    /\ NewTask.local_host = local_host
    /\ NewTask.tunnel_id \in 1..Len(tunnels[NewTask.conn])
         => NewTask.local_port = tunnels[NewTask.conn][NewTask.tunnel_id]
    /\ NewTask.tunnel_id \notin 1..Len(tunnels[NewTask.conn]) => NewTask.local_port = 3000

\* C19 as stated: a tunnel_request whose tunnel_id is not in the tunnels map is
\* forwarded to port 3000 on the configured local host and a tunnel_response for its
\* request_id is still enqueued; a request whose tunnel_id is registered is
\* forwarded to that tunnel's recorded local_port.
C19_FallbackPort ==
  /\ [][ForwardTarget]_vars
  /\ [][\A t \in 1..MaxRequests :
          Sends(t) /\ Unregistered(t) =>
            /\ IsResponseFor(req[t].msg, t)
            /\ msg_enq'[req[t].conn] = Append(msg_enq[req[t].conn], req[t].msg)]_vars

\* C19, amended: the same, with the tunnel_response enqueued when the writer task of
\* the connection has not stopped, and dropped when it has.
C19_FallbackPortWhileWriterRuns ==
  /\ [][ForwardTarget]_vars
  /\ [][\A t \in 1..MaxRequests :
          Sends(t) /\ Unregistered(t) =>
            /\ IsResponseFor(req[t].msg, t)
            /\ msg_rx_open[req[t].conn]
                 => msg_enq'[req[t].conn] = Append(msg_enq[req[t].conn], req[t].msg)
            /\ ~msg_rx_open[req[t].conn] => msg_enq'[req[t].conn] = msg_enq[req[t].conn]]_vars

\* a request for tunnel 2, which was never registered, went to port 3000 and its
\* response is on the writer queue; the one for tunnel 1 goes to port 8080
C19_Witness ==
  /\ Len(req) = 2
  /\ req[1].tunnel_id = 2 /\ req[1].local_port = 3000 /\ req[1].pc = "done"
  /\ req[1].local_host = "localhost"
  /\ \E i \in 1..Len(msg_enq[1]) : msg_enq[1][i] = req[1].msg /\ IsResponseFor(msg_enq[1][i], 1)
  /\ req[2].tunnel_id = 1 /\ req[2].local_port = 8080

\* ------------------------------------------------------------------ C20
\* the steps of run and connect_and_run_once that call send_tui_event with a
\* ConnectionStatus: the loop top, the successful dial, and the Ok and Err arms
LoopTop == sup_pc = "loop" /\ sup_pc' = "dial"
DialSucceeded == sup_pc = "dial" /\ ~dialed /\ dialed'
AttemptFailed == failures' = failures + 1
AttemptReturned == sup_pc \notin {"sleep", "done"} /\ sup_pc' \in {"sleep", "done"}
\* a status event is emitted: consecutive events always differ, so these are the
\* steps that change status
StatusEmitted == status' # status
\* the backoff in force when the k-th attempt fails
RECURSIVE BackoffOfAttempt(_)
BackoffOfAttempt(k) ==
  IF k = 1 THEN INITIAL_BACKOFF_MS ELSE NextBackoff(BackoffOfAttempt(k - 1))

\* C20: the supervisor's status events follow its state machine. Connecting is
\* emitted exactly once, at the first attempt; Connected is emitted only directly
\* after a successful dial; after the k-th failed attempt (k < 10) a
\* Reconnecting{attempt: k, reason, next_retry_secs = floor(backoff_k / 1000)} is
\* emitted before the sleep, so the first failure yields attempt 1 and
\* next_retry_secs 1; and no status event follows a Disconnected event.
C20_StatusEvents ==
  /\ [][/\ StatusEmitted <=> (LoopTop \/ DialSucceeded \/ AttemptReturned)
        /\ attempt' >= attempt
        /\ (attempt = 0 /\ attempt' = 1) => status' = StatusConnecting
        /\ (StatusEmitted /\ status'.kind = "Connecting") => (attempt = 0 /\ attempt' = 1)
        /\ (StatusEmitted /\ status'.kind = "Connected") => DialSucceeded
        /\ AttemptFailed =>
             /\ attempt = failures'
             /\ attempt < 10 =>
                  /\ status' = [kind |-> "Reconnecting", attempt |-> failures',
                                reason |-> Reason(last_error'),
                                next_retry_secs |-> BackoffOfAttempt(failures') \div 1000]
                  /\ sup_pc' = "sleep"
                  /\ failures' = 1 => status'.next_retry_secs = 1
        /\ sup_pc = "sleep" => ~StatusEmitted
        /\ status.kind = "Disconnected" => ~StatusEmitted]_vars
  /\ [](attempt >= 1 => status.kind # "none")

\* the third attempt dialed, announced Connected and then failed: Reconnecting with
\* attempt 3 and floor(2250 / 1000) = 2 seconds is the last event, the sleep has not
\* started
C20_Witness ==
  /\ attempt = 3 /\ failures = 3 /\ dialed
  /\ sup_pc = "sleep"
  /\ status = StatusReconnecting(3, "Connection lost", 2)

\* ----------------------------------------------------------------- C21
\* the dial of the flow's task succeeded
TcpDialed(id) == tcp[id].pc = "insert" \/ tcp[id].rd # "none"
\* the frames enqueued toward the server that name tcp_id, in order
TcpFrames(c, id) ==
  SelectSeq(msg_enq[c], LAMBDA f : f.type \in {"tcp_connected", "tcp_data", "tcp_close"}
                                   /\ f.tcp_id = id)

TcpDialFailed(id) == tcp[id].pc = "done" /\ tcp[id].rd = "none"
WsDialFailed(id) == ws[id].pc = "done" /\ ws[id].wr = "none"
\* the frames enqueued toward the server that name ws_id, in order
WsFrames(c, id) ==
  SelectSeq(msg_enq[c], LAMBDA f : f.type \in {"ws_upgraded", "ws_frame", "ws_close"}
                                   /\ f.ws_id = id)
\* the close frames the claim calls for
IsTcpDialClose(f, id) ==
  /\ f.type = "tcp_close" /\ f.tcp_id = id
  /\ \E e \in DialErrors : f.reason = [prefix |-> "Connection failed: ", e |-> e]
IsWsDialClose(f, id) ==
  /\ f.type = "ws_close" /\ f.ws_id = id /\ f.code = 1011
  /\ \E e \in DialErrors : f.reason = [prefix |-> "Local connection failed: ", e |-> e]
\* no entry for the id is ever inserted
NeverInserted ==
  /\ \A id \in TcpIds : (TcpDialFailed(id) \/ tcp[id].pc = "dial") => ~tcp[id].in_map
  /\ \A id \in WsIds : (WsDialFailed(id) \/ ws[id].pc = "connect") => ~ws[id].in_map
  /\ [][/\ \A id \in TcpIds : TcpDialFailed(id) => ~tcp'[id].in_map /\ TcpDialFailed(id)'
        /\ \A id \in WsIds : WsDialFailed(id) => ~ws'[id].in_map /\ WsDialFailed(id)']_vars

\* C22 as stated: when the local dial for a flow fails, exactly one close frame is
\* enqueued for it (ws_close with code 1011 and reason "Local connection failed: {e}"
\* for a ws_upgrade, tcp_close with reason "Connection failed: {e}" for a
\* tcp_connect), no ws_upgraded or tcp_connected is enqueued for that id, and no
\* entry for that id is ever inserted into ws_proxies or tcp_connections.
C22_DialFailureClose ==
  /\ [](/\ \A id \in TcpIds :
             TcpDialFailed(id) =>
               LET p == TcpFrames(tcp[id].conn, id) IN Len(p) = 1 /\ IsTcpDialClose(p[1], id)
        /\ \A id \in WsIds :
             WsDialFailed(id) =>
               LET p == WsFrames(ws[id].conn, id) IN Len(p) = 1 /\ IsWsDialClose(p[1], id))
  /\ NeverInserted

\* C22, amended: exactly one such close frame while the writer task of the
\* connection is running when the flow's task sends it, none once the writer has
\* dropped its queue; never another frame for the id, never an entry for it.
C22_DialFailureCloseWhileWriterRuns ==
  /\ [](/\ \A id \in TcpIds :
             TcpDialFailed(id) =>
               LET p == TcpFrames(tcp[id].conn, id)
               IN /\ Len(p) <= 1
                  /\ msg_rx_open[tcp[id].conn] => Len(p) = 1
                  /\ Len(p) = 1 => IsTcpDialClose(p[1], id)
        /\ \A id \in WsIds :
             WsDialFailed(id) =>
               LET p == WsFrames(ws[id].conn, id)
               IN /\ Len(p) <= 1
                  /\ msg_rx_open[ws[id].conn] => Len(p) = 1
                  /\ Len(p) = 1 => IsWsDialClose(p[1], id))
  /\ NeverInserted

\* both dials failed: one tcp_close and one ws_close 1011 on the writer queue,
\* neither id in its map
C22_Witness ==
  /\ TcpDialFailed("c1") /\ WsDialFailed("w1")
  /\ TcpFrames(1, "c1") = <<tcp_close("c1", [prefix |-> "Connection failed: ",
                                             e |-> "connection refused"])>>
  /\ WsFrames(1, "w1") = <<ws_close("w1", 1011, [prefix |-> "Local connection failed: ",
                                                 e |-> "connection refused"])>>
  /\ ~tcp["c1"].in_map /\ ~ws["w1"].in_map

\* ----------------------------------------------------------------- C23
\* the step in which a ws_close for an id in ws_proxies is dispatched
WsCloseDispatched(id) == ~ws[id].server_closed /\ ws'[id].server_closed /\ ws[id].in_map
\* the close frame the claim calls for at the local origin
GivenCloseFrame(id) ==
  CloseFrame(unwrap_or(ws[id].close_code, 1000), unwrap_or(ws[id].close_reason, ""))
\* the proxy leaves ws_proxies when the ws_close is dispatched
WsCloseRemoves == \A id \in WsIds : WsCloseDispatched(id) => ~ws'[id].in_map

\* C23: on an inbound ws_close{ws_id, code?, reason?} for a known ws_id, the proxy
\* is removed from ws_proxies and the close delivered to the local origin carries
\* the given code and reason, defaulting to 1000 and the empty string when absent.
C23_WsCloseDelivered ==
  /\ [][WsCloseRemoves]_vars
  /\ [](\A id \in WsIds : \A i \in 1..Len(ws[id].written) :
          ws[id].written[i].kind = "Close" =>
            ws[id].written[i].close_frame = GivenCloseFrame(id))

\* ----------------------------------------------------------------- C24
\* the step in which proxy.run takes a close message of the local origin
LocalCloseTaken(id) ==
  /\ ws[id].pc = "run" /\ ws'[id].pc = "cleanup"
  /\ ws[id].from_local # <<>> /\ Head(ws[id].from_local).kind = "close"
\* the ws_close the claim calls for: the origin's code and reason, 1000 and "" when
\* its close carried none
LocalCloseOut(id) ==
  LET f == Head(ws[id].from_local).close_frame
  IN [type |-> "ws_close", ws_id |-> id,
      code |-> IF f.some THEN f.code ELSE 1000,
      reason |-> IF f.some THEN f.reason ELSE ""]
\* after the close the flow is at its end: nothing more is enqueued for the id, and
\* once removed from ws_proxies it stays out
WsFlowEnds ==
  \A id \in WsIds :
    /\ ws[id].pc \in {"cleanup", "done"} =>
         /\ WsFrames(ws[id].conn, id)' = WsFrames(ws[id].conn, id)
         /\ ws'[id].pc \in {"cleanup", "done"}
    /\ ws[id].pc = "done" => ~ws[id].in_map /\ ~ws'[id].in_map
\* the proxy is removed once the flow has ended
WsRemovedAtEnd ==
  \A id \in WsIds : (ws[id].pc = "cleanup") ~> (ws[id].pc = "done" /\ ~ws[id].in_map)

NextUnknown ==
  \/ \E id \in TcpIds, k \in TcpTunnelIds : HandleTcpConnect(attempt, id, k)
  \/ \E id \in TcpIds : TcpConnectOk(id)
  \/ \E id \in TcpIds : TcpInsert(id)
  \/ \E id \in TcpIds : TcpReadEof(id)
  \/ \E id \in TcpIds : TcpCleanup(id)
  \/ \E id \in TcpIds : HandleTcpData(attempt, id)
  \/ \E id \in TcpIds : HandleTcpClose(attempt, id)
  \/ \E id \in WsIds, k \in TunnelIds : HandleWsUpgrade(attempt, id, k)
  \/ \E id \in WsIds : WsConnectOk(id)
  \/ \E id \in WsIds : WsInsert(id)
  \/ \E id \in WsIds, frame \in LocalCloseFrames : WsLocalClose(id, frame)
  \/ \E id \in WsIds : WsRun(id)
  \/ \E id \in WsIds : WsCleanup(id)
  \/ \E id \in WsIds : HandleWsFrame(attempt, id)
  \/ \E id \in WsIds, code \in CloseCodes, reason \in CloseReasons :
        HandleWsClose(attempt, id, code, reason)
  \/ WriterWrite(attempt)

SpecUnknown == InitEstablished /\ [][NextUnknown]_vars

\* a flow's record without the bookkeeping of what the server has sent
TcpProgram(r) ==
  [r EXCEPT !.dispatched = 0, !.server_closed = FALSE, !.tcp_tunnel_id = 0]
WsProgram(r) ==
  [r EXCEPT !.dispatched = 0, !.server_closed = FALSE,
            !.close_code = NoCode, !.close_reason = NoReason]

\* the step dispatched a tcp_data or a tcp_close for an id not in tcp_connections
UnknownTcpFrame(id) ==
  /\ ~TcpLookup(attempt, id)
  /\ \/ tcp'[id].dispatched # tcp[id].dispatched
     \/ tcp'[id].server_closed # tcp[id].server_closed

\* the step dispatched a ws_frame or a ws_close for an id not in ws_proxies
UnknownWsFrame(id) ==
  /\ ~WsLookup(attempt, id)
  /\ \/ ws'[id].dispatched # ws[id].dispatched
     \/ ws'[id].server_closed # ws[id].server_closed

\* the step dispatched a tcp_connect whose tcp_tunnel_id is not in tcp_tunnels
UnknownTunnelConnect(id) ==
  /\ tcp[id].pc = "none"
  /\ tcp'[id].tcp_tunnel_id # tcp[id].tcp_tunnel_id
  /\ tcp'[id].tcp_tunnel_id \notin 1..Len(tcp_tunnels[attempt])

\* ClientState, the outbound queues, every flow and task, and the receiver task
\* are after the step what they were before it
DroppedWithoutEffect ==
  /\ \A i \in TcpIds : TcpProgram(tcp'[i]) = TcpProgram(tcp[i])
  /\ \A i \in WsIds : WsProgram(ws'[i]) = WsProgram(ws[i])
  /\ UNCHANGED <<hdrVars, connVars, httpVars, wireVars, supVars, handlerVars>>
  /\ disp' = DispIdle
  /\ reader[attempt] = "running"

\* C25: a ws_frame or ws_close for a ws_id not in ws_proxies, a tcp_data or
\* tcp_close for a tcp_id not in tcp_connections, and a tcp_connect whose
\* tcp_tunnel_id is not in tcp_tunnels each leave ClientState unchanged, enqueue
\* no outbound frame, spawn no flow and leave the receiver task in its loop
C25_UnknownDropped ==
  [][(\/ \E id \in TcpIds : UnknownTcpFrame(id) \/ UnknownTunnelConnect(id)
      \/ \E id \in WsIds : UnknownWsFrame(id))
     => DroppedWithoutEffect]_vars

\* a tcp_connect named tunnel 2, which the client does not have, and no flow was
\* spawned; a ws_frame and a ws_close came for w1 before its task had stored the
\* proxy, and neither reached the proxy's channel
C25_Witness ==
  /\ tcp["c1"].tcp_tunnel_id = 2 /\ 2 \notin 1..Len(tcp_tunnels[attempt])
  /\ tcp["c1"].pc = "none"
  /\ ws["w1"].pc = "insert" /\ ~ws["w1"].in_map
  /\ ws["w1"].dispatched >= 1 /\ ws["w1"].server_closed
  /\ ws["w1"].to_local = <<>> /\ ws["w1"].written = <<>>
  /\ reader[attempt] = "running"

\* ------------------------------------------------ teardown of a TCP flow
\* write_task: local_rx.recv() gave a chunk and write_all failed; the task ends
\* and the channel's receiving end is dropped with what it still held
TcpWriteErr(id) ==
  /\ tcp[id].wr = "running"
  /\ tcp[id].local_q # <<>>
  /\ tcp' = [tcp EXCEPT ![id].wr = "ended", ![id].local_q = <<>>,
                        ![id].origin_open = FALSE]
  /\ UNCHANGED <<hdrVars, bodyVars, tuiVars, wireVars, dispVars, supVars, uiVars, connVars, handlerVars, histVars, httpVars, wsVars>>

\* one TCP flow whose origin takes no bytes until the channel is full, and then
\* may take some or none; it may half-close and a write to it may fail; the
\* server sends up to MaxBlocked chunks more than the channel holds
NextTeardown ==
  \/ \E id \in TcpIds, k \in TcpTunnelIds : HandleTcpConnect(attempt, id, k)
  \/ \E id \in TcpIds : TcpConnectOk(id)
  \/ \E id \in TcpIds : TcpInsert(id)
  \/ \E id \in TcpIds : TcpReadEof(id)
  \/ \E id \in TcpIds : disp.pc = "send" /\ TcpWrite(id)
  \/ \E id \in TcpIds : TcpWriteErr(id)
  \/ \E id \in TcpIds : TcpWriteEnd(id)
  \/ \E id \in TcpIds : TcpCleanup(id)
  \/ \E id \in TcpIds : HandleTcpData(attempt, id)
  \/ \E id \in TcpIds : TcpDataSent(id)
  \/ WriterWrite(attempt)

SpecTeardown == InitSlow /\ [][NextTeardown]_vars

\* the runtime keeps polling the tasks: handle_tcp_connection takes the write
\* lock when it is free, the receiver task's conn.tx.send returns when the
\* channel has room or is closed, write_task sees its channel closed. Whether the
\* origin takes bytes is not the program's to decide
FairSpecTeardown ==
  /\ SpecTeardown
  /\ WF_vars(\E id \in TcpIds : TcpCleanup(id))
  /\ WF_vars(\E id \in TcpIds : TcpDataSent(id))
  /\ WF_vars(\E id \in TcpIds : TcpWriteEnd(id))

\* the flow is stored and read_task or write_task has ended
TcpTaskEnded(id) ==
  /\ tcp[id].pc = "select"
  /\ tcp[id].rd = "ended" \/ tcp[id].wr = "ended"

\* once removed by the teardown the id is not inserted again
TcpStaysAbsent ==
  [][\A id \in TcpIds : tcp[id].pc = "done" => ~tcp'[id].in_map]_vars

\* a tcp_data dispatched after the teardown reaches no channel and no origin
TcpLaterDataDropped ==
  [][\A id \in TcpIds :
       tcp[id].pc = "done" /\ tcp'[id].dispatched # tcp[id].dispatched
         => /\ tcp'[id].local_q = tcp[id].local_q
            /\ tcp'[id].written = tcp[id].written
            /\ disp' = DispIdle]_vars

\* C26: for every TCP flow, once read_task or write_task has ended, the tcp_id
\* is eventually removed from tcp_connections and stays absent, and a later
\* tcp_data for it is dropped as unknown
C26_TcpTeardown ==
  /\ \A id \in TcpIds : TcpTaskEnded(id) ~> ~tcp[id].in_map
  /\ TcpStaysAbsent
  /\ TcpLaterDataDropped

\* what does hold: the id is removed unless the receiver task stays for ever
\* inside conn.tx.send for this flow, read guard held
C26_TeardownUnlessReceiverWaits ==
  /\ \A id \in TcpIds :
       TcpTaskEnded(id) ~> (~tcp[id].in_map \/ [](disp.pc = "send" /\ tcp[id].in_map))
  /\ TcpStaysAbsent
  /\ TcpLaterDataDropped

\* the transport frames the receiver task logs and does nothing else with
IgnoredKinds == {"pong", "binary"}

\* receiver task, Message::Pong(_) and Message::Binary(_): a debug! line
HandlePongOrBinary(c, kind) ==
  /\ Followed(c)
  /\ reader[c] = "running"
  /\ disp.pc = "idle"
  /\ Len(transport_in[c]) < MaxPings
  /\ transport_in' = [transport_in EXCEPT ![c] = Append(@, TransportFrame(kind, Len(@) + 1))]
  /\ UNCHANGED <<hdrVars, bodyVars, tuiVars, sink, raw_enq, raw_taken, heartbeat, ticks, msg_enq, msg_taken, msg_rx_open>>
  /\ UNCHANGED <<dispVars, taskVars, supVars, uiVars, cfg_chan, cfg_rx_open,
                 pending_tunnels, pending_tcp_tunnels, tunnels, tunnels_registered,
                 tcp_tunnels, tcp_tunnels_registered, reader, handlerVars, histVars>>

\* pings, pongs and binary frames from the server, a close or a read error, with
\* the heartbeat and the writer at work
NextTransport ==
  \/ HandlePing(attempt)
  \/ \E kind \in IgnoredKinds : HandlePongOrBinary(attempt, kind)
  \/ ReceiverEnd(attempt)
  \/ Heartbeat(attempt)
  \/ WriterWrite(attempt)
  \/ WriterWritePong(attempt)
  \/ WriterFail(attempt)
  \/ WriterFailPong(attempt)

SpecTransport == InitEstablished /\ [][NextTransport]_vars

\* the payloads of the pings among the transport frames read, in the order read
PingData(frames) ==
  LET pings == SelectSeq(frames, LAMBDA f : f.kind = "ping")
  IN  [i \in 1..Len(pings) |-> pings[i].data]

\* the step read a pong or a binary frame
IgnoredRead(c) ==
  /\ Len(transport_in'[c]) = Len(transport_in[c]) + 1
  /\ transport_in'[c][Len(transport_in'[c])].kind \in IgnoredKinds

\* a pong or a binary frame changes nothing but the record of what was read
IgnoredChangesNothing ==
  [][\A c \in Conns : IgnoredRead(c) =>
       UNCHANGED <<sink, raw_enq, raw_taken, heartbeat, ticks, connVars, taskVars,
                   dispVars, supVars, handlerVars, tuiVars>>]_vars

\* after a close frame or a read error the receiver task reads no frame
EndedReadsNothing ==
  [][\A c \in Conns : reader[c] = "ended" =>
       /\ reader'[c] = "ended"
       /\ transport_in'[c] = transport_in[c]
       /\ raw_enq'[c] = raw_enq[c]]_vars

\* C27 as stated: the raw queue has been given exactly one pong per ping, same
\* payload, in ping order; pong and binary frames change no state and enqueue
\* nothing; a close frame or a read error ends the receiver loop
C27_TransportFrames ==
  /\ [](\A c \in Conns : raw_enq[c] = PingData(transport_in[c]))
  /\ IgnoredChangesNothing
  /\ EndedReadsNothing

\* C27, amended: one pong per ping, same payload, in ping order, for the pings
\* read while the sender task is running; a ping read after it ended gets no
\* pong, so the pongs enqueued are always a beginning of the pings' payloads
C27_TransportFramesWhileWriterRuns ==
  /\ [](\A c \in Conns :
          /\ IsPrefix(raw_enq[c], PingData(transport_in[c]))
          /\ msg_rx_open[c] => raw_enq[c] = PingData(transport_in[c]))
  /\ IgnoredChangesNothing
  /\ EndedReadsNothing

\* a pong and a ping were read, in that order: the raw queue got one pong, with
\* the ping's payload 2, the sender task wrote it, and then a close frame or a
\* read error ended the receiver loop
C27_Witness ==
  /\ transport_in[1] = <<TransportFrame("pong", 1), Ping(2)>>
  /\ raw_enq[1] = <<2>>
  /\ raw_taken[1] = 1
  /\ reader[1] = "ended"

\* the sender task of the current attempt has stopped on a write error
WriterStopped == Followed(attempt) /\ ~msg_rx_open[attempt]

\* connect_and_run_once returns to run
AttemptEnds == sup_pc = "drain2" /\ sup_pc' # "drain2"

\* with the sender task stopped the select has a finished JoinHandle to take
SelectSeesWriterStop ==
  [](sup_pc = "select" /\ WriterStopped => ENABLED SelectLost)

\* a sender task that is followed stops only on a write error: it took a frame
\* from its queue and the sink did not get it
WriterStopsOnlyOnError ==
  [][\A c \in Conns :
       msg_rx_open[c] /\ ~msg_rx_open'[c] /\ ~(c = attempt /\ AttemptEnds)
         => /\ sink'[c] = sink[c]
            /\ \/ msg_taken'[c] = msg_taken[c] + 1
               \/ raw_taken'[c] = raw_taken[c] + 1]_vars

\* C28 as stated: after a send error has stopped the writer task the attempt
\* ends with "Connection lost" and run goes on to the backoff sleep; the writer
\* stops for no other reason
C28_WriterErrorLost ==
  /\ SelectSeesWriterStop
  /\ [][AttemptEnds /\ WriterStopped
          => last_error' = "Connection lost" /\ sup_pc' = "sleep"]_vars
  /\ WriterStopsOnlyOnError

\* C28, amended: the attempt ends with "Connection lost" unless the select took
\* the shutdown signal, and run sleeps the backoff unless this was attempt
\* MAX_RECONNECT_ATTEMPTS, when it gives up with the error
C28_WriterErrorLostUnlessShutdownOrCap ==
  /\ SelectSeesWriterStop
  /\ [][AttemptEnds /\ WriterStopped
          => IF select_result = "ctrl_c"
               THEN result' = "ok" /\ sup_pc' = "done"
               ELSE /\ last_error' = "Connection lost"
                    /\ IF attempt >= MAX_RECONNECT_ATTEMPTS
                         THEN result' = "err" /\ sup_pc' = "done"
                         ELSE sup_pc' = "sleep"]_vars
  /\ WriterStopsOnlyOnError

\* the write of the first connection's register frame failed, the attempt ended
\* with "Connection lost" and run is in its backoff sleep
C28_Witness ==
  /\ attempt = 1
  /\ sup_pc = "sleep"
  /\ last_error = "Connection lost"
  /\ ~msg_rx_open[1]
  /\ msg_taken[1] = 1 /\ sink[1] = <<>>

\* the sender task's select! polls its two arms in a random order each time
\* round, so an arm that stays ready is taken in the end
FairSpecWire ==
  /\ SpecWire
  /\ WF_vars(WriterWrite(attempt))
  /\ WF_vars(WriterWritePong(attempt))

\* the positions in the text queue and in the raw queue that a run of SpecWire
\* fills: the registrations, a response, a tcp_connected and the heartbeats;
\* the pongs
TextPositions == 1..(Len(EstablishedConfigs) + 2 + MaxTicks)
RawPositions == 1..MaxPings

\* each queue reaches the sink in the order it was filled
WriterFifo ==
  [](\A c \in Conns : /\ IsPrefix(SinkText(c), msg_enq[c])
                      /\ IsPrefix(SinkPongs(c), raw_enq[c]))

\* the select takes from either queue whatever the other one holds
EitherQueueSelectable ==
  [](\A c \in Conns : Followed(c) /\ msg_rx_open[c] =>
        /\ msg_taken[c] < Len(msg_enq[c]) => ENABLED WriterWrite(c)
        /\ raw_taken[c] < Len(raw_enq[c]) => ENABLED WriterWritePong(c))

\* C29: frames of one queue reach the sink in FIFO order, and the selection
\* between the text queue and the raw queue is fair: every frame enqueued on
\* either queue is eventually written, unless a write has failed and stopped the
\* sender task
C29_FifoAndFair ==
  /\ WriterFifo
  /\ EitherQueueSelectable
  /\ \A n \in TextPositions :
       (Len(msg_enq[1]) >= n) ~> (Len(SinkText(1)) >= n \/ ~msg_rx_open[1])
  /\ \A n \in RawPositions :
       (Len(raw_enq[1]) >= n) ~> (Len(SinkPongs(1)) >= n \/ ~msg_rx_open[1])

\* two pongs and at least four text frames were enqueued and all are on the
\* sink, a pong between two text frames and a pong last
C29_Witness ==
  /\ msg_rx_open[1]
  /\ Len(raw_enq[1]) = 2 /\ SinkPongs(1) = raw_enq[1]
  /\ Len(msg_enq[1]) >= 4 /\ SinkText(1) = msg_enq[1]
  /\ sink[1][Len(sink[1])].msg = "pong"
  /\ \E i \in 2..(Len(sink[1]) - 1) :
       sink[1][i].msg = "pong" /\ sink[1][i - 1].msg = "text" /\ sink[1][i + 1].msg = "text"

\* ---------------------------------------------------------------- C30
\* C30: when a tunnel_registered (resp. tcp_tunnel_registered) is dispatched,
\* the paired entry leaves pending_tunnels (resp. pending_tcp_tunnels), so that
\* each pending queue holds the registrations sent and not yet confirmed
C30_PendingPopped ==
  [][\A c \in Conns :
       /\ tunnels_registered'[c] = tunnels_registered[c] + 1
            => Len(pending_tunnels'[c]) = Len(pending_tunnels[c]) - 1
       /\ tcp_tunnels_registered'[c] = tcp_tunnels_registered[c] + 1
            => Len(pending_tcp_tunnels'[c]) = Len(pending_tcp_tunnels[c]) - 1]_vars

\* ---------------------------------------------------------------- C31
\* the ClientState guard the receiver task holds: handle_message takes
\* state.read() in the WsFrame and TcpData arms and state.write() in the WsClose
\* arm, and the guard lives to the end of the arm, across the send
HeldGuard ==
  IF disp.pc = "idle" THEN "none"
  ELSE IF disp.kind = "ws" /\ disp.item.opcode = "close" THEN "write"
  ELSE "read"

\* C31: the receiver task never waits on a send to a bounded queue while it
\* holds the ClientState read or write guard, so a full queue never keeps a
\* flow's task from taking the guard for its cleanup
C31_NoSendUnderGuard ==
  /\ disp.pc = "send" => HeldGuard = "none"
  /\ \A id \in TcpIds : TcpTaskEnded(id) => ENABLED TcpCleanup(id)

\* ---------------------------------------------------------------- C32
\* the runtime keeps polling every task and the supervisor: a step that can be
\* taken is not put off for ever
FairSpec == Spec /\ WF_vars(Next)

\* no task of connection c is running any more and its writer queue is closed
AllTasksEnded(c) ==
  /\ ~msg_rx_open[c]
  /\ heartbeat[c] # "running"
  /\ reader[c] # "running"
  /\ ~HandlerHolds(c)

MaxHeaders == 2

\* str::to_lowercase on the header names used here
to_lowercase(name) ==
  CASE name = "Connection" -> "connection"
    [] name = "TE" -> "te"
    [] name = "Host" -> "host"
    [] name = "Accept" -> "accept"
    [] name = "Cookie" -> "cookie"
    [] OTHER -> name

\* the names forward_http_request skips in both directions
HopByHop ==
  {"connection", "keep-alive", "proxy-authenticate", "proxy-authorization",
   "te", "trailers", "transfer-encoding", "upgrade"}

\* HeaderName::from_str: Ok with the name in lower case, or Err for a name that
\* is not a token; HeaderValue::from_str: Err for a value with a control byte
HeaderNameOk(name) == name # "x bad"
HeaderValueOk(value) == value # "a\nb"

\* HeaderMap::insert: the value takes the place of the one the name had
MapInsert(map, name, value) ==
  IF \E i \in 1..Len(map) : map[i][1] = name
    THEN [i \in 1..Len(map) |-> IF map[i][1] = name THEN <<name, value>> ELSE map[i]]
    ELSE Append(map, <<name, value>>)

\* the loop over the request's headers that fills header_map
RECURSIVE request_headers(_, _)
request_headers(headers, map) ==
  IF headers = <<>> THEN map
  ELSE LET name == headers[1][1]
           value == headers[1][2]
           next ==
             IF to_lowercase(name) \in HopByHop \cup {"host"} THEN map
             ELSE IF HeaderNameOk(name) /\ HeaderValueOk(value)
               THEN MapInsert(map, to_lowercase(name), value)
               ELSE map
       IN request_headers(Tail(headers), next)

\* the filter_map over response.headers(): a value that to_str() refuses (bytes
\* outside visible ASCII) is left out
ToStrOk(value) == value # "opaque"
response_headers(origin) ==
  SelectSeq(origin, LAMBDA h : to_lowercase(h[1]) \notin HopByHop /\ ToStrOk(h[2]))

\* header lines a tunnel_request frame can carry, and entries the origin's
\* response can have (reqwest keeps their names in lower case)
RequestLines ==
  (HopByHop \cup {"host", "Connection", "TE", "Host", "accept", "Accept", "x bad"})
    \X {"a", "b", "a\nb"}
OriginLines == (HopByHop \cup {"content-type", "set-cookie"}) \X {"a", "opaque"}

InitHeaders ==
  /\ Established /\ NoTasks /\ inbound_limit = MaxInbound /\ NoBody
  /\ wsreq = [i \in 1..2 |-> [pc |-> "idle", path |-> "/", headers |-> <<>>, request |-> <<>>]]
  /\ \E n \in 0..MaxHeaders, k \in 0..MaxHeaders :
       /\ n + k <= MaxHeaders
       /\ \E headers \in [1..n -> RequestLines], origin \in [1..k -> OriginLines] :
            fwd = [pc |-> "new", headers |-> headers, header_map |-> <<>>,
                   origin |-> origin, response_headers |-> <<>>]

\* request = request.headers(header_map); request.send()
BuildRequest ==
  /\ fwd.pc = "new"
  /\ fwd' = [fwd EXCEPT !.pc = "sent", !.header_map = request_headers(fwd.headers, <<>>)]
  /\ UNCHANGED <<wsreq, bodyVars, tuiVars, wireVars, dispVars, supVars, uiVars, connVars, handlerVars, histVars, taskVars>>

\* the response has arrived: response_headers is collected from it
ExtractResponse ==
  /\ fwd.pc = "sent"
  /\ fwd' = [fwd EXCEPT !.pc = "done", !.response_headers = response_headers(fwd.origin)]
  /\ UNCHANGED <<wsreq, bodyVars, tuiVars, wireVars, dispVars, supVars, uiVars, connVars, handlerVars, histVars, taskVars>>

NextHeaders == BuildRequest \/ ExtractResponse
SpecHeaders == InitHeaders /\ [][NextHeaders]_vars

\* ---------------------------------------------------------------- C33
NamesOf(lines) == {to_lowercase(lines[i][1]) : i \in 1..Len(lines)}

\* no stripped name goes to the origin or comes back
NoHopByHop ==
  /\ fwd.pc \in {"sent", "done"} => NamesOf(fwd.header_map) \cap (HopByHop \cup {"host"}) = {}
  /\ fwd.pc = "done" => NamesOf(fwd.response_headers) \cap HopByHop = {}

\* every other header line with a valid name (and a value that can be sent at
\* all) is in what is sent on
RequestPassedThrough ==
  fwd.pc \in {"sent", "done"} =>
    \A i \in 1..Len(fwd.headers) :
      LET name == fwd.headers[i][1]
      IN (/\ to_lowercase(name) \notin HopByHop \cup {"host"}
          /\ HeaderNameOk(name) /\ HeaderValueOk(fwd.headers[i][2])) =>
           \E j \in 1..Len(fwd.header_map) :
             fwd.header_map[j] = <<to_lowercase(name), fwd.headers[i][2]>>

ResponsePassedThrough ==
  fwd.pc = "done" =>
    \A i \in 1..Len(fwd.origin) :
      (fwd.origin[i][1] \notin HopByHop /\ ToStrOk(fwd.origin[i][2])) =>
        \E j \in 1..Len(fwd.response_headers) : fwd.response_headers[j] = fwd.origin[i]

\* C33: the forwarder strips the hop-by-hop names in both directions whatever
\* their case, strips host from the request as well, and passes every other
\* header with a valid name through
C33_HopByHopStripped == NoHopByHop /\ RequestPassedThrough /\ ResponsePassedThrough

\* ------------------------------------------- headers of the local dial
\* header entries of the two ws_upgrade frames together
MaxWsHeaders == 3

\* the same loop with the test for cookie and authorization left out
RECURSIVE connect_headers_all(_, _)
connect_headers_all(headers, map) ==
  IF headers = <<>> THEN map
  ELSE LET header == headers[1]
           next ==
             IF Len(header) >= 2 /\ HeaderNameOk(header[1]) /\ HeaderValueOk(header[2])
               THEN MapInsert(map, to_lowercase(header[1]), header[2])
               ELSE map
       IN connect_headers_all(Tail(headers), next)

\* the loop of WebSocketProxy::connect over the frame's headers: what it inserts
\* into the request's headers
RECURSIVE connect_headers(_, _)
connect_headers(headers, map) ==
  IF headers = <<>> THEN map
  ELSE LET header == headers[1]
           next ==
             IF Len(header) >= 2
                  /\ to_lowercase(header[1]) \in {"cookie", "authorization"}
                  /\ HeaderNameOk(header[1]) /\ HeaderValueOk(header[2])
               THEN MapInsert(map, to_lowercase(header[1]), header[2])
               ELSE map
       IN connect_headers(Tail(headers), next)

\* the request connect_async is given: the url's parts and the headers added
\* to what into_client_request made of the url (the Sec-WebSocket-Key of the
\* handshake is drawn at random for every dial and is no part of this)
client_request(local_port, path, headers) ==
  [host |-> local_host, port |-> local_port, path |-> path,
   headers |-> connect_headers(headers, <<>>)]

\* entries of a ws_upgrade frame's headers (Vec<Vec<String>>), one of them
\* with a single string and one with a value that is no header value
UpgradeLines ==
  {<<"cookie", "a">>, <<"cookie", "b">>, <<"Cookie", "a">>, <<"authorization", "a">>,
   <<"origin", "a">>, <<"origin", "b">>, <<"cookie">>, <<"Cookie", "a\nb">>}
UpgradePaths == {"/", "/ws"}

InitWsHeaders ==
  /\ Established /\ NoTasks /\ inbound_limit = MaxInbound /\ NoBody
  /\ fwd = [pc |-> "idle", headers |-> <<>>, header_map |-> <<>>,
            origin |-> <<>>, response_headers |-> <<>>]
  /\ \E n \in 0..MaxWsHeaders, k \in 0..MaxWsHeaders :
       /\ n + k <= MaxWsHeaders
       /\ \E h1 \in [1..n -> UpgradeLines], h2 \in [1..k -> UpgradeLines] :
            \E p1 \in UpgradePaths, p2 \in UpgradePaths :
              wsreq = <<[pc |-> "new", path |-> p1, headers |-> h1, request |-> <<>>],
                        [pc |-> "new", path |-> p2, headers |-> h2, request |-> <<>>]>>

\* WebSocketProxy::connect builds the request of dial i and hands it to
\* connect_async; both frames name the tunnel with local port 8080
ConnectRequest(i) ==
  /\ wsreq[i].pc = "new"
  /\ wsreq' = [wsreq EXCEPT ![i].pc = "built",
                 ![i].request = client_request(8080, wsreq[i].path, wsreq[i].headers)]
  /\ UNCHANGED <<fwd, bodyVars, tuiVars, wireVars, dispVars, supVars, uiVars, connVars, handlerVars, histVars, taskVars>>

NextWsHeaders == \E i \in 1..2 : ConnectRequest(i)
SpecWsHeaders == InitWsHeaders /\ [][NextWsHeaders]_vars

\* ---------------------------------------------------------------- C34
\* the cookie and authorization headers of a frame, names without case
Credentials(headers) ==
  LET picked == SelectSeq(headers, LAMBDA h :
                   Len(h) >= 2 /\ to_lowercase(h[1]) \in {"cookie", "authorization"})
  IN [i \in 1..Len(picked) |-> <<to_lowercase(picked[i][1]), picked[i][2]>>]

\* C34: two ws_upgrade frames with the same path and the same cookie and
\* authorization headers give the same request to the local origin, whatever
\* their other headers are
C34_OnlyCredentials ==
  (/\ wsreq[1].pc = "built" /\ wsreq[2].pc = "built"
   /\ wsreq[1].path = wsreq[2].path
   /\ Credentials(wsreq[1].headers) = Credentials(wsreq[2].headers))
    => wsreq[1].request = wsreq[2].request

C34_Witness ==
  /\ wsreq[1].pc = "built" /\ wsreq[2].pc = "built"
  /\ wsreq[1].path = wsreq[2].path
  /\ wsreq[1].headers = <<<<"Cookie", "a">>, <<"origin", "a">>>>
  /\ wsreq[2].headers = <<<<"cookie", "a">>>>
  /\ wsreq[1].request = wsreq[2].request
  /\ wsreq[1].request.headers = <<<<"cookie", "a">>>>

\* ---------------------------------------------------------------- C35
\* ws_upgraded{id} is on connection c's writer queue or already written
WsUpgradedEnqueued(c, id) ==
  \E i \in 1..Len(msg_enq[c]) : /\ msg_enq[c][i].type = "ws_upgraded"
                                /\ msg_enq[c][i].ws_id = id

\* the flow's task has connected and has not finished, and the server has not
\* closed the flow
WsFlowOpen(id) == ws[id].pc \in {"insert", "run"} /\ ~ws[id].server_closed

\* C35: once ws_upgraded{ws_id} has been enqueued for an open flow, ws_id is in
\* ws_proxies, and the ws_frame messages the server sends after reading
\* ws_upgraded all reach the flow's channel to the local origin
C35_RegisteredBeforeUpgraded ==
  \A id \in WsIds :
    (ws[id].conn \in Conns /\ WsUpgradedEnqueued(ws[id].conn, id) /\ WsFlowOpen(id)) =>
      /\ ws[id].in_map
      /\ ws[id].wr = "running" =>
           Len(ws[id].written) + Len(ws[id].to_local) = ws[id].dispatched

\* ------------------------------------------------ a writer queue with a backlog
\* the server is slow to read and an earlier TCP flow c0, since ended, has left its
\* tcp_data frames on the writer queue: room is left for the frames of one new flow
\* short of what it is going to read
Backlog == [i \in 1..(MSG_CHANNEL_CAP - MaxOutbound + 1) |-> tcp_data("c0", i)]

InitBacklog ==
  /\ EstablishedBut /\ NoTasks /\ inbound_limit = MaxInbound /\ NoBody /\ NoHeaders
  /\ msg_enq = [c \in Conns |-> EstablishedQueue[c] \o (IF c = 1 THEN Backlog ELSE <<>>)]

\* a WebSocket flow opens and its origin sends; the writer gets at most MaxOutbound
\* frames written meanwhile
NextWsBacklog ==
  \/ \E id \in WsIds, k \in TunnelIds : HandleWsUpgrade(attempt, id, k)
  \/ \E id \in WsIds : WsConnectOk(id)
  \/ \E id \in WsIds : WsInsert(id)
  \/ \E id \in WsIds : WsLocalRead(id)
  \/ \E id \in WsIds : WsRun(id)
  \/ msg_taken[attempt] < 2 + MaxOutbound /\ WriterWrite(attempt)

SpecWsBacklog == InitBacklog /\ [][NextWsBacklog]_vars

\* ---------------------------------------------------------------- C36
\* the payloads of the text messages waiting on the flow's from_local channel
WsFromLocal(id) ==
  LET texts == SelectSeq(ws[id].from_local, LAMBDA m : m.kind = "text")
  IN [i \in 1..Len(texts) |-> texts[i].data]

\* C36: while a WebSocket flow is open and the writer task is running, every
\* message read from the local origin is on the writer queue as a ws_frame or
\* still waiting in the flow, in the order read; none is discarded, a full
\* writer queue included
C36_NoFrameLost ==
  \A id \in WsIds :
    (ws[id].pc = "run" /\ ws[id].conn \in Conns /\ msg_rx_open[ws[id].conn]) =>
      WsOut(ws[id].conn, id) \o WsFromLocal(id) = UpTo(ws[id].read)

\* ---------------------------------------------------------------- C37
\* the tcp_data and tcp_close frames of flow id among the frames given to a
\* writer queue
TcpFramesOf(frames, id) ==
  SelectSeq(frames, LAMBDA f : f.type \in {"tcp_data", "tcp_close"} /\ f.tcp_id = id)

NoFrameAfterTcpClose ==
  \A id \in TcpIds : \A c \in Conns :
    tcp[id].server_closed => TcpFramesOf(msg_enq'[c], id) = TcpFramesOf(msg_enq[c], id)

\* C37: once the receiver task has handled the server's tcp_close{tcp_id}, no
\* tcp_data and no tcp_close for that tcp_id is enqueued any more
C37_QuietAfterTcpClose == [][NoFrameAfterTcpClose]_vars

\* ---------------------------------------------------------------- C38
\* C38: the supervisor gives up only after attempts in a row that failed to dial:
\* the attempt it gives up on did not dial successfully, and neither did the one
\* before it, after which it slept
C38_OnlyConsecutiveFailures ==
  (result = "err" /\ status.reason.prefix = "Failed after") =>
    (~dialed /\ ~last_sleep_dialed)

\* --------------------------------------------- many commands on one connection
\* the UI adds HTTP tunnels one after the other while the connection stays up:
\* one command more than the tunnel-config channel holds
NextCommands ==
  \/ Submit(HttpCommand, TUNNEL_CONFIG_CAP + MaxBlocked)
  \/ HandlerRecv
  \/ HandlerTrack
  \/ HandlerSend
  \/ WriterWrite(attempt)

SpecCommands == InitEstablished /\ [][NextCommands]_vars

\* ---------------------------------------------------------------- C39
\* C39: while the connection is up, the command handler never waits at the
\* tracking of a command: with a command taken, it can hand the tunnel's config
\* over and go on to enqueue the register frame
C39_TrackingNeverBlocks ==
  (/\ h_pc = "track" /\ h_conn = attempt
   /\ sup_pc = "select" /\ msg_rx_open[attempt] /\ reader[attempt] = "running")
    => ENABLED HandlerTrack

====
